---- MODULE Spec2Model ----
(***************************************************************************)
(* A model of the L2 settlement engine of ghostbridge (src/src/settlement) *)
(* as a state machine: the admission pool and the periodic ticks of        *)
(* L2SettlementEngine, the BatchProcessor, the OptimisticRollup, the       *)
(* FinalityEngine, the StateManager and the ZKProofSystem.                  *)
(*                                                                         *)
(* Digests are symbolic: sha256 over a byte stream is the record           *)
(* [kind |-> "sha", data |-> stream], two digests being equal exactly when *)
(* the streams are; the 32 zero bytes of the genesis root are ZeroRoot.    *)
(* A HashMap is a function with a finite domain.                           *)
(***************************************************************************)
EXTENDS Integers, Sequences, FiniteSets, TLC

VARIABLES
    pool,        \* TransactionPool of the engine (mod.rs:91)
    queue,       \* SettlementQueue of the engine (mod.rs:121)
    batch_task,  \* the task spawned by start_batch_processor: "running" | "panicked"
    bp,          \* BatchProcessor: GlobalState of its StateComputer, its results
    rollup,      \* OptimisticRollup
    fin,         \* FinalityEngine
    sm,          \* StateManager
    clock,       \* SystemTime::now(), in milliseconds
    ret,         \* the last call and what it returned
    admitted,    \* history: the transactions submit_transaction accepted, in order
    registered,  \* history: the batch ids register_challenge was called for
    zk           \* ZKProofSystem

vars == <<pool, queue, batch_task, bp, rollup, fin, sm, clock, ret, admitted, registered, zk>>

(***************************************************************************)
(* Bounds of the model.                                                    *)
(***************************************************************************)
MaxNonce == 2
MaxTx == 3
MaxClock == 1
MaxBatches == 2
MaxChallenges == 1
MaxUpdates == 3
MaxSubmits == 2

(***************************************************************************)
(* Program constants.                                                      *)
(***************************************************************************)
MaxPendingTransactions == 3
BatchSize == 2
MinGasLimit == 21000
MaxGasLimit == 15000000
MaxSettleAtOnce == 5

Addresses == {"a1", "a2"}
TokenTypes == {"GCC", "MANA"}

(***************************************************************************)
(* Maps and sequences.                                                     *)
(***************************************************************************)
EmptyMap == [k \in {} |-> 0]

Get(map, k, default) == IF k \in DOMAIN map THEN map[k] ELSE default

Put(map, k, v) == [x \in (DOMAIN map) \cup {k} |-> IF x = k THEN v ELSE map[x]]

Remove(map, k) == [x \in (DOMAIN map) \ {k} |-> map[x]]

Range(s) == {s[i] : i \in DOMAIN s}

Reverse(s) == [i \in 1..Len(s) |-> s[Len(s) + 1 - i]]

\* every arrangement of the elements of the finite set S as a sequence
Orderings(S) ==
    {f \in [1..Cardinality(S) -> S] : \A i, j \in 1..Cardinality(S) : i # j => f[i] # f[j]}

\* every rearrangement of the sequence s
Rearrangements(s) ==
    {[i \in 1..Len(s) |-> s[p[i]]] : p \in Orderings(1..Len(s))}

\* a loop over the elements of s in order: Op(acc, element) is one iteration
\* (the accumulator is bound to its value before the next iteration uses it)
FoldSeq(Op(_, _), init, s) ==
    LET F[i \in 0..Len(s)] ==
            IF i = 0 THEN init
            ELSE CHOOSE next \in {Op(acc, s[i]) : acc \in {F[i - 1]}} : TRUE
    IN  F[Len(s)]

\* the elements of S in some order
SetToSeq(S) == CHOOSE f \in Orderings(S) : TRUE

Take(s, n) == SubSeq(s, 1, IF n < Len(s) THEN n ELSE Len(s))

Drop(s, n) == SubSeq(s, (IF n < Len(s) THEN n ELSE Len(s)) + 1, Len(s))

(***************************************************************************)
(* Digests.                                                                *)
(***************************************************************************)
ZeroRoot == [kind |-> "zero", data |-> <<>>]

Sha256(stream) == [kind |-> "sha", data |-> stream]

(***************************************************************************)
(* Transactions (types.rs:252, with the gas fields the settlement code     *)
(* reads).  gas_price_high says gas_price > 50 Gwei (mod.rs:487); signed   *)
(* says signature.is_some().                                               *)
(***************************************************************************)
Tx(id, from, to, token, amount, nonce, gas_limit, high, signed) ==
    [id |-> id, from_address |-> from, to_address |-> to, token_type |-> token,
     amount |-> amount, nonce |-> nonce, gas_limit |-> gas_limit, data_len |-> 0,
     gas_price_high |-> high, signed |-> signed]

\* the transactions callers hand to submit_transaction, before an id is drawn
\* the transactions offered to submit_transaction: the well-formed transfers,
\* and for each sender one transfer of amount zero, one with gas limit zero
\* and one without a signature
WellFormedTxs ==
    {Tx(0, f, t, "GCC", 1, n, MinGasLimit, h, TRUE) :
        f \in Addresses, t \in Addresses, n \in 1..MaxNonce, h \in BOOLEAN}

MalformedTxs ==
    UNION {{Tx(0, f, f, "GCC", 0, 1, MinGasLimit, FALSE, TRUE),
            Tx(0, f, f, "GCC", 1, 1, 0, FALSE, TRUE),
            Tx(0, f, f, "GCC", 1, 1, MinGasLimit, FALSE, FALSE)} : f \in Addresses}

EngineTxs == WellFormedTxs \cup MalformedTxs

(***************************************************************************)
(* L2SettlementEngine: admission.                                          *)
(***************************************************************************)
PoolNew ==
    [pending |-> <<>>, processing |-> EmptyMap, priority_queue |-> <<>>,
     nonce_tracker |-> EmptyMap, total_size |-> 0]

QueueNew ==
    [pending_batches |-> <<>>, submitted_batches |-> EmptyMap,
     finalized_batches |-> EmptyMap]

is_meta_transaction(tx) == FALSE

validate_transaction(tx) ==
    IF tx.amount = 0 THEN "Zero amount transaction"
    ELSE IF tx.gas_limit = 0 THEN "Zero gas limit"
    ELSE IF ~tx.signed /\ ~is_meta_transaction(tx) THEN "Missing transaction signature"
    ELSE "ok"

is_high_priority_transaction(tx) == tx.gas_price_high

expected_nonce(p, tx) == Get(p.nonce_tracker, tx.from_address, 0) + 1

nonce_in_order_gaps(p, tx) == tx.nonce >= expected_nonce(p, tx)

nonce_in_order(p, tx) == tx.nonce = expected_nonce(p, tx)

\* a pool section that records the sender's nonce before its two tests
pool_insert_tracking(p, tx) ==
    LET tracked == [p EXCEPT !.nonce_tracker = Put(@, tx.from_address, tx.nonce)]
    IN  IF p.total_size >= MaxPendingTransactions
        THEN [pool |-> tracked, result |-> "Transaction pool full"]
        ELSE IF ~nonce_in_order(p, tx)
        THEN [pool |-> tracked, result |-> "Invalid nonce"]
        ELSE [pool |->
                [tracked EXCEPT
                    !.priority_queue =
                        IF is_high_priority_transaction(tx) THEN Append(@, tx) ELSE @,
                    !.pending =
                        IF is_high_priority_transaction(tx) THEN @ ELSE Append(@, tx),
                    !.total_size = @ + 1],
              result |-> "ok"]

\* a pool section without the capacity test
pool_insert_unbounded(p, tx) ==
    IF ~nonce_in_order(p, tx)
    THEN [pool |-> p, result |-> "Invalid nonce"]
    ELSE [pool |->
            [p EXCEPT
                !.priority_queue =
                    IF is_high_priority_transaction(tx) THEN Append(@, tx) ELSE @,
                !.pending =
                    IF is_high_priority_transaction(tx) THEN @ ELSE Append(@, tx),
                !.nonce_tracker = Put(@, tx.from_address, tx.nonce),
                !.total_size = @ + 1],
          result |-> "ok"]

\* the pool section of submit_transaction, run under the pool's write lock
pool_insert(p, tx) ==
    IF p.total_size >= MaxPendingTransactions
    THEN [pool |-> p, result |-> "Transaction pool full"]
    ELSE IF ~nonce_in_order(p, tx)
    THEN [pool |-> p, result |-> "Invalid nonce"]
    ELSE [pool |->
            [p EXCEPT
                !.priority_queue =
                    IF is_high_priority_transaction(tx) THEN Append(@, tx) ELSE @,
                !.pending =
                    IF is_high_priority_transaction(tx) THEN @ ELSE Append(@, tx),
                !.nonce_tracker = Put(@, tx.from_address, tx.nonce),
                !.total_size = @ + 1],
          result |-> "ok"]

submit_transaction(p, tx, approved) ==
    IF validate_transaction(tx) # "ok"
    THEN [pool |-> p, result |-> validate_transaction(tx)]
    ELSE IF ~approved
    THEN [pool |-> p, result |-> "Transaction rejected by security"]
    ELSE pool_insert(p, tx)

(***************************************************************************)
(* BatchProcessor.  Its GlobalState holds no account records (nothing      *)
(* inserts into accounts), so the state is the root, balances and nonces.  *)
(***************************************************************************)
GlobalStateNew == [state_root |-> ZeroRoot, balances |-> EmptyMap, nonces |-> EmptyMap]

BatchProcessorNew == [state |-> GlobalStateNew, produced |-> <<>>, last_exec |-> <<>>]

SignatureValidator(tx) == tx.signed

NonceValidator(tx) == TRUE

BalanceValidator(tx) == TRUE

GasValidator(tx) == tx.gas_limit >= MinGasLimit /\ tx.gas_limit <= MaxGasLimit

\* validate_single_transaction past its cache: the conjunction of the four
\* validators.  The cache in front of it, keyed by (id, nonce), returns this
\* same value while no two transactions share an id and a nonce, which is the
\* case wherever the ids are drawn distinct; the section on the validation
\* stage models the cache itself.
validate_single_transaction(tx) ==
    SignatureValidator(tx) /\ NonceValidator(tx) /\ BalanceValidator(tx) /\ GasValidator(tx)

ValidOnly(txs) == SelectSeq(txs, validate_single_transaction)

\* validate_transactions: one task per transaction is spawned and the results
\* are collected from the channel in the order the tasks complete, so the
\* value returned is any rearrangement of the valid transactions
validate_transactions(txs) == Rearrangements(ValidOnly(txs))

BaseTransactionCost == 21000
DataCostPerByte == 16
TransferCost == 2300

Min(a, b) == IF a < b THEN a ELSE b

\* a cost that is not capped at the gas limit of the transaction
calculate_gas_cost_uncapped(tx) ==
    BaseTransactionCost + tx.data_len * DataCostPerByte
        + (IF tx.amount > 0 THEN TransferCost ELSE 0)

calculate_gas_cost(tx) ==
    Min(BaseTransactionCost + tx.data_len * DataCostPerByte
            + (IF tx.amount > 0 THEN TransferCost ELSE 0),
        tx.gas_limit)

BalanceChange(address, value) ==
    [change_type |-> "BalanceUpdate", address |-> address, new_value |-> value]

NonceChange(address, value) ==
    [change_type |-> "NonceUpdate", address |-> address, new_value |-> value]

sufficient_balance(tx, state) ==
    Get(state.balances, <<tx.from_address, tx.token_type>>, 0) >= tx.amount

execute_single_transaction(tx, state) ==
    IF ~sufficient_balance(tx, state)
    THEN [success |-> FALSE, gas_used |-> 21000, state_changes |-> <<>>]
    ELSE [success |-> TRUE,
          gas_used |-> calculate_gas_cost(tx),
          state_changes |->
            << BalanceChange(tx.from_address,
                   Get(state.balances, <<tx.from_address, tx.token_type>>, 0) - tx.amount),
               BalanceChange(tx.to_address,
                   Get(state.balances, <<tx.to_address, tx.token_type>>, 0) + tx.amount),
               NonceChange(tx.from_address, Get(state.nonces, tx.from_address, 0) + 1) >>]

apply_state_change(state, change) ==
    IF change.change_type = "BalanceUpdate"
    THEN [state EXCEPT !.balances = Put(@, <<change.address, "GCC">>, change.new_value)]
    ELSE IF change.change_type = "NonceUpdate"
    THEN [state EXCEPT !.nonces = Put(@, change.address, change.new_value)]
    ELSE state

apply_state_changes(state, changes) == FoldSeq(apply_state_change, state, changes)

\* the loop of execute_transactions over the validated transactions, in order
execute_step(acc, tx) ==
    LET r == execute_single_transaction(tx, acc.state)
    IN  IF r.success
        THEN [state |-> apply_state_changes(acc.state, r.state_changes),
              executed |-> Append(acc.executed, tx),
              gas_used |-> acc.gas_used + r.gas_used]
        ELSE acc

execute_loop(state, txs) ==
    FoldSeq(execute_step, [state |-> state, executed |-> <<>>, gas_used |-> 0], txs)

\* compute_state_root feeds the hasher one (address, token, balance) entry after
\* another in the HashMap's iteration order; order is that iteration order
compute_state_root(state, order) ==
    Sha256([i \in 1..Len(order) |-> <<order[i][1], order[i][2], state.balances[order[i]]>>])

\* the orders in which a HashMap with these keys can be iterated
IterationOrders(map) == Orderings(DOMAIN map)

get_previous_state_root == ZeroRoot

assemble_batch(transactions, state_root, gas_used, now) ==
    [batch_id |-> now, transactions |-> transactions, state_root |-> state_root,
     previous_state_root |-> get_previous_state_root, gas_used |-> gas_used]

\* update_metrics divides the processing time by the number of transactions of
\* the batch: Duration / 0 panics
update_metrics_panics(batch) == Len(batch.transactions) = 0

\* process_batch, for one completion order of the validation tasks (validated)
\* and one iteration order of the balances (order)
process_batch(b, validated, order, now) ==
    LET x == execute_loop(b.state, validated)
        root == compute_state_root(x.state, order)
        batch == assemble_batch(x.executed, root, x.gas_used, now)
    IN  [bp |-> [state |-> [x.state EXCEPT !.state_root = root],
                 produced |-> IF update_metrics_panics(batch) THEN b.produced
                              ELSE Append(b.produced, batch),
                 last_exec |-> validated],
         panicked |-> update_metrics_panics(batch),
         batch |-> batch]

(***************************************************************************)
(* OptimisticRollup.                                                       *)
(***************************************************************************)
ChallengeTypes ==
    {"InvalidStateTransition", "InvalidTransaction", "InvalidMerkleProof",
     "InvalidGasUsage", "DataAvailability"}

\* one challenge type for each arm of verify_challenge
ChallengeInputs == {"InvalidStateTransition", "InvalidTransaction", "DataAvailability"}

MinChallengeStake == 100
FraudProofWindow == 1
ChallengePeriod == 1

RollupNew ==
    [current_state_root |-> ZeroRoot, state_transitions |-> EmptyMap,
     batches |-> EmptyMap, state_snapshots |-> EmptyMap, merkle_roots |-> <<>>,
     active_challenges |-> EmptyMap, pending_challenges |-> EmptyMap,
     challenge_history |-> <<>>, next_challenge_id |-> 1]

\* the length in bytes of a state root: a digest or the genesis root is 32
\* bytes long, a root of kind "short" is a byte string of another length
RootLen(root) == IF root.kind = "short" THEN 31 ELSE 32

verify_merkle_proof(batch) == TRUE

\* a validation that does not look at the length of the state root
validate_batch_any_root(batch) ==
    IF Len(batch.transactions) = 0 THEN "Empty batch"
    ELSE IF ~verify_merkle_proof(batch) THEN "Invalid merkle proof"
    ELSE "ok"

validate_batch(batch) ==
    IF Len(batch.transactions) = 0 THEN "Empty batch"
    ELSE IF RootLen(batch.state_root) # 32 THEN "Invalid state root length"
    ELSE IF ~verify_merkle_proof(batch) THEN "Invalid merkle proof"
    ELSE "ok"

execute_state_transition(r, batch) ==
    [batch_id |-> batch.batch_id, previous_root |-> r.current_state_root,
     new_root |-> batch.state_root, transactions |-> batch.transactions]

submit_batch(r, batch) ==
    IF validate_batch(batch) # "ok"
    THEN [rollup |-> r, result |-> validate_batch(batch)]
    ELSE [rollup |->
            [r EXCEPT
                !.batches = Put(@, batch.batch_id,
                                [batch |-> batch, finality_status |-> "Pending"]),
                !.state_snapshots = Put(@, batch.batch_id, batch.state_root),
                !.merkle_roots = Append(@, <<batch.state_root, batch.batch_id>>),
                !.state_transitions =
                    Put(@, batch.batch_id, execute_state_transition(r, batch)),
                !.current_state_root = batch.state_root],
          result |-> "ok"]

\* a submit_challenge that takes a challenge id before it looks the batch up
submit_challenge_counting(r, batch_id, challenge_type, stake_amount, now) ==
    IF stake_amount < MinChallengeStake
    THEN [rollup |-> r, result |-> "Insufficient stake for challenge"]
    ELSE IF batch_id \notin DOMAIN r.batches
    THEN [rollup |-> [r EXCEPT !.next_challenge_id = @ + 1], result |-> "Batch not found"]
    ELSE IF r.batches[batch_id].finality_status = "Finalized"
    THEN [rollup |-> [r EXCEPT !.next_challenge_id = @ + 1],
          result |-> "Batch already finalized"]
    ELSE LET challenge ==
                [challenge_id |-> r.next_challenge_id, batch_id |-> batch_id,
                 challenge_type |-> challenge_type, stake_amount |-> stake_amount,
                 deadline |-> now + FraudProofWindow,
                 status |-> "Pending"]
         IN  [rollup |->
                [r EXCEPT
                    !.next_challenge_id = @ + 1,
                    !.active_challenges = Put(@, challenge.challenge_id, challenge),
                    !.pending_challenges = Put(@, challenge.challenge_id, challenge)],
              result |-> "ok"]

submit_challenge(r, batch_id, challenge_type, stake_amount, now) ==
    IF stake_amount < MinChallengeStake
    THEN [rollup |-> r, result |-> "Insufficient stake for challenge"]
    ELSE IF batch_id \notin DOMAIN r.batches
    THEN [rollup |-> r, result |-> "Batch not found"]
    ELSE IF r.batches[batch_id].finality_status = "Finalized"
    THEN [rollup |-> r, result |-> "Batch already finalized"]
    ELSE LET challenge ==
                [challenge_id |-> r.next_challenge_id, batch_id |-> batch_id,
                 challenge_type |-> challenge_type, stake_amount |-> stake_amount,
                 deadline |-> now + FraudProofWindow,
                 status |-> "Pending"]
         IN  [rollup |->
                [r EXCEPT
                    !.next_challenge_id = @ + 1,
                    !.active_challenges = Put(@, challenge.challenge_id, challenge),
                    !.pending_challenges = Put(@, challenge.challenge_id, challenge)],
              result |-> "ok"]

verify_challenge(challenge) ==
    IF challenge.challenge_type = "InvalidStateTransition" THEN "ChallengeFailed"
    ELSE IF challenge.challenge_type = "InvalidTransaction" THEN "ChallengeFailed"
    ELSE "NoContest"

\* revert_batch; both records exist for every batch submit_batch accepted
revert_batch(r, batch_id) ==
    IF batch_id \notin DOMAIN r.batches
    THEN [rollup |-> r, result |-> "Batch not found for revert"]
    ELSE IF batch_id \notin DOMAIN r.state_transitions
    THEN [rollup |-> r, result |-> "State transition not found"]
    ELSE [rollup |->
            [r EXCEPT
                !.current_state_root = r.state_transitions[batch_id].previous_root,
                !.batches[batch_id].finality_status = "Reverted"],
          result |-> "ok"]

handle_successful_challenge(r, challenge) == revert_batch(r, challenge.batch_id)

handle_failed_challenge(r, challenge) == [rollup |-> r, result |-> "ok"]

\* process_challenge from the point where verify_challenge has returned outcome
resolve_challenge_with(r, challenge, outcome) ==
    LET applied ==
            IF outcome = "ChallengeSuccessful" THEN handle_successful_challenge(r, challenge)
            ELSE IF outcome = "ChallengeFailed" THEN handle_failed_challenge(r, challenge)
            ELSE [rollup |-> r, result |-> "ok"]
    IN  IF applied.result # "ok"
        THEN [rollup |-> applied.rollup, result |-> applied.result]
        ELSE [rollup |->
                [applied.rollup EXCEPT
                    !.active_challenges = Remove(@, challenge.challenge_id),
                    !.challenge_history =
                        Append(@, [challenge_id |-> challenge.challenge_id,
                                   batch_id |-> challenge.batch_id,
                                   outcome |-> outcome])],
              result |-> outcome]

process_challenge(r, challenge_id) ==
    IF challenge_id \notin DOMAIN r.active_challenges
    THEN [rollup |-> r, result |-> "Challenge not found"]
    ELSE resolve_challenge_with(r, r.active_challenges[challenge_id],
                                verify_challenge(r.active_challenges[challenge_id]))

(***************************************************************************)
(* FinalityEngine.  Its trackers are plain fields behind &self: no method  *)
(* inserts into them, only the finality cache is written.                  *)
(***************************************************************************)
RequiredConfirmations == 12

FinalityNew ==
    [pending_finality |-> EmptyMap, active_challenges |-> EmptyMap,
     challenge_periods |-> EmptyMap, cached_finality |-> EmptyMap,
     current_block |-> 0]

\* builds a MonitoredTransaction, a PendingFinality and a ChallengePeriod and
\* drops them
track_l1_submission(f, batch_id, submitted_at) == f

update_finality_for_challenge(f, batch_id) == f

\* builds an ActiveChallenge of status Open and drops it; the period of the
\* batch is updated only when challenge_periods holds one
register_challenge(f, batch_id, challenge_type, now) ==
    update_finality_for_challenge(
        IF batch_id \in DOMAIN f.challenge_periods
        THEN [f EXCEPT !.challenge_periods[batch_id] =
                    [@ EXCEPT !.challenge_count = @ + 1,
                              !.period_status = "Challenged"]]
        ELSE f,
        batch_id)

\* a finality test that does not count L1 confirmations
is_batch_finalized_unconfirmed(pending, now) ==
    /\ \A i \in DOMAIN pending.finality_requirements :
            pending.finality_requirements[i].satisfied
    /\ now > pending.challenge_period_end

is_batch_finalized(pending, now) ==
    /\ \A i \in DOMAIN pending.finality_requirements :
            pending.finality_requirements[i].satisfied
    /\ now > pending.challenge_period_end
    /\ pending.l1_confirmations >= RequiredConfirmations

cache_finality_result(f, batch_id, finalized, finality_type) ==
    [f EXCEPT !.cached_finality =
        Put(@, batch_id, [finalized |-> finalized, finality_type |-> finality_type])]

\* finalize_batch: caches the batch as finalized, of type Economic
finalize_batch(f, batch_id) == cache_finality_result(f, batch_id, TRUE, "Economic")

\* a monitor that takes every batch the rollup holds as pending and passed,
\* whatever challenges stand against it
check_finalized_batches_unconditional(f, now) ==
    [fin |-> FoldSeq(finalize_batch, f, SetToSeq(DOMAIN rollup.batches)),
     finalized |-> DOMAIN rollup.batches]

\* update_finality_progress: logs
update_finality_progress(f, transaction_hash, confirmations) == f

\* update_l1_confirmation: builds a BlockConfirmation and drops it
update_l1_confirmation(f, transaction_hash, block_number, confirmations) ==
    update_finality_progress(f, transaction_hash, confirmations)

\* check_finalized_batches: the batches of pending_finality that pass
\* is_batch_finalized, each finalized by finalize_batch
check_finalized_batches(f, now) ==
    LET to_finalize ==
            {id \in DOMAIN f.pending_finality :
                is_batch_finalized(f.pending_finality[id], now)}
    IN  [fin |-> FoldSeq(finalize_batch, f, SetToSeq(to_finalize)),
         finalized |-> to_finalize]

(***************************************************************************)
(* L2SettlementEngine: the periodic ticks.                                 *)
(***************************************************************************)
\* the transactions process_pending_transactions takes from the pool:
\* priority_queue.pop() takes from the back, pending.pop_front() from the front
drain_priority(p) == Take(Reverse(p.priority_queue), BatchSize)

drain_pending(p) == Take(p.pending, BatchSize - Len(drain_priority(p)))

batch_transactions(p) == drain_priority(p) \o drain_pending(p)

move_to_processing(processing, txs, now) ==
    LET insert(map, tx) ==
            Put(map, tx.id, [transaction |-> tx, batch_id |-> now, started_at |-> now,
                             stage |-> "Validation"])
    IN  FoldSeq(insert, processing, txs)

\* drain with the total_size decrement left out
drain_uncounted(p, now) ==
    IF batch_transactions(p) = <<>> THEN p
    ELSE [p EXCEPT
            !.priority_queue = Take(@, Len(@) - Len(drain_priority(p))),
            !.pending = Drop(@, Len(drain_pending(p))),
            !.processing = move_to_processing(@, batch_transactions(p), now)]

drain(p, now) ==
    IF batch_transactions(p) = <<>> THEN p
    ELSE [p EXCEPT
            !.priority_queue = Take(@, Len(@) - Len(drain_priority(p))),
            !.pending = Drop(@, Len(drain_pending(p))),
            !.processing = move_to_processing(@, batch_transactions(p), now),
            !.total_size = @ - Len(batch_transactions(p))]

\* what process_pending_transactions does with the batch process_batch returned
enqueue_result(q, batch) == q

\* submit_batch_to_l1, and the loop of process_settlement_queue over the batches
\* taken from the queue: a batch the rollup rejects is logged and not put back
submit_batch_to_l1(q, r, batch, now) ==
    LET res == submit_batch(r, batch)
    IN  IF res.result # "ok"
        THEN [queue |-> q, rollup |-> r]
        ELSE [queue |->
                [q EXCEPT !.submitted_batches =
                    Put(@, batch.batch_id,
                        [batch |-> batch, confirmation_count |-> 0,
                         challenge_period_end |-> now + ChallengePeriod])],
              rollup |-> res.rollup]

submit_batches_to_l1(q, r, batches, now) ==
    LET submit(acc, batch) == submit_batch_to_l1(acc.queue, acc.rollup, batch, now)
    IN  FoldSeq(submit, [queue |-> q, rollup |-> r], batches)

process_settlement_queue(q, r, now) ==
    submit_batches_to_l1(
        [q EXCEPT !.pending_batches = Drop(@, MaxSettleAtOnce)],
        r, Take(q.pending_batches, MaxSettleAtOnce), now)

\* a monitor that copies a finalized batch without taking it out of
\* submitted_batches
move_finalized_keeping(q, ids) ==
    LET move(acc, id) ==
            IF id \in DOMAIN acc.submitted_batches
            THEN [acc EXCEPT
                    !.finalized_batches =
                        Put(@, id, [batch |-> acc.submitted_batches[id].batch,
                                    l1_block_number |-> 0, final_gas_used |-> 0])]
            ELSE acc
    IN  FoldSeq(move, q, SetToSeq(ids))

move_finalized(q, ids) ==
    LET move(acc, id) ==
            IF id \in DOMAIN acc.submitted_batches
            THEN [acc EXCEPT
                    !.submitted_batches = Remove(@, id),
                    !.finalized_batches =
                        Put(@, id, [batch |-> acc.submitted_batches[id].batch,
                                    l1_block_number |-> 0, final_gas_used |-> 0])]
            ELSE acc
    IN  FoldSeq(move, q, SetToSeq(ids))

monitor_finality(q, f, now) ==
    [queue |-> move_finalized(q, check_finalized_batches(f, now).finalized),
     fin |-> check_finalized_batches(f, now).fin,
     finalized |-> check_finalized_batches(f, now).finalized]

(***************************************************************************)
(* StateManager.                                                           *)
(***************************************************************************)
MaxHistorySize == 2

L2StateNew ==
    [state_root |-> ZeroRoot, block_number |-> 0, timestamp |-> 0,
     accounts |-> EmptyMap, storage |-> EmptyMap, balances |-> EmptyMap,
     nonces |-> EmptyMap, total_supply |-> EmptyMap, transaction_count |-> 0,
     gas_used |-> 0]

StateManagerNew ==
    [state |-> L2StateNew, updates |-> <<>>, snapshots |-> EmptyMap,
     rollback_points |-> <<>>, cached_accounts |-> EmptyMap,
     cached_storage |-> EmptyMap]

\* a StateValue: [type |-> "U256" | "Account" | "Bytes" | "None", v |-> the value]
U256Value(n) == [type |-> "U256", v |-> n]

AccountValue(a) == [type |-> "Account", v |-> a]

StateChange(change_type, address, key, new_value) ==
    [change_type |-> change_type, address |-> address, key |-> key,
     new_value |-> new_value]

\* key of a change that carries none (Option::None); the keys proper are naturals
NoKey == -1

apply_single_change(state, change) ==
    IF change.change_type = "AccountCreation"
    THEN IF change.new_value.type = "Account"
         THEN [state EXCEPT !.accounts = Put(@, change.address, change.new_value.v)]
         ELSE state
    ELSE IF change.change_type = "AccountDeletion"
    THEN [state EXCEPT !.accounts = Remove(@, change.address)]
    ELSE IF change.change_type = "BalanceUpdate"
    THEN IF change.new_value.type = "U256"
         THEN [state EXCEPT !.balances =
                    Put(@, <<change.address, "GCC">>, change.new_value.v)]
         ELSE state
    ELSE IF change.change_type = "NonceUpdate"
    THEN IF change.new_value.type = "U256"
         THEN [state EXCEPT !.nonces = Put(@, change.address, change.new_value.v)]
         ELSE state
    ELSE IF change.change_type = "StorageUpdate"
    THEN IF change.key # NoKey /\ change.new_value.type = "U256"
         THEN [state EXCEPT !.storage =
                    Put(@, <<change.address, change.key>>, change.new_value.v)]
         ELSE state
    ELSE IF change.change_type = "CodeUpdate"
    THEN IF change.new_value.type = "Bytes" /\ change.address \in DOMAIN state.accounts
         THEN [state EXCEPT !.accounts[change.address] =
                    [account |-> @, code |-> change.new_value.v]]
         ELSE state
    ELSE IF change.change_type = "SupplyUpdate"
    THEN IF change.new_value.type = "U256"
         THEN [state EXCEPT !.total_supply = Put(@, "GCC", change.new_value.v)]
         ELSE state
    ELSE state

apply_changes(state, changes) == FoldSeq(apply_single_change, state, changes)

invalidate_cache_for_change(m, change) ==
    [m EXCEPT
        !.cached_accounts = Remove(@, change.address),
        !.cached_storage =
            IF change.key # NoKey THEN Remove(@, <<change.address, change.key>>) ELSE @]

invalidate_cache_for_update(m, changes) ==
    FoldSeq(invalidate_cache_for_change, m, changes)

root_matches_unchecked(m, update) == TRUE

root_matches(m, update) == m.state.state_root = update.state_root_before

push_history(updates, update) ==
    IF Len(updates) + 1 > MaxHistorySize
    THEN Tail(Append(updates, update))
    ELSE Append(updates, update)

apply_state_update(m, update) ==
    IF ~root_matches(m, update)
    THEN [sm |-> m, result |-> "State root mismatch"]
    ELSE [sm |->
            invalidate_cache_for_update(
                [m EXCEPT
                    !.state =
                        [apply_changes(@, update.updates) EXCEPT
                            !.block_number = update.block_number,
                            !.timestamp = update.timestamp,
                            !.transaction_count = @ + 1,
                            !.gas_used = @ + update.gas_used,
                            !.state_root = update.state_root_after],
                    !.updates = push_history(@, update)],
                update.updates),
          result |-> "ok"]

cache_account(m, address, account) ==
    [m EXCEPT !.cached_accounts = Put(@, address, account)]

get_account(m, address) ==
    IF address \in DOMAIN m.cached_accounts
    THEN [sm |-> m, result |-> m.cached_accounts[address]]
    ELSE IF address \in DOMAIN m.state.accounts
    THEN [sm |-> cache_account(m, address, m.state.accounts[address]),
          result |-> m.state.accounts[address]]
    ELSE [sm |-> m, result |-> "None"]

(***************************************************************************)
(* ZKProofSystem: the proof cache, keyed by batch id and state root, and   *)
(* the Verifier with its verification keys and its cache of results.       *)
(* A proof id is "proof-" followed by the milliseconds of the clock.       *)
(***************************************************************************)
ProofLifetime == 86400000
ProofGenerationTime == 100

NoProof == [proof_id |-> -1]

\* ProofVerifier is built with verification_keys: HashMap::new() and the
\* map is behind no lock: no key is ever added
ZKProofSystemNew ==
    [cached_proofs |-> EmptyMap, expiry_times |-> EmptyMap,
     verification_keys |-> {}, verification_cache |-> EmptyMap]

compute_batch_cache_key(batch) == <<batch.batch_id, batch.state_root>>

get_cached_proof(z, cache_key, now) ==
    IF cache_key \in DOMAIN z.cached_proofs
    THEN IF cache_key \in DOMAIN z.expiry_times /\ now > z.expiry_times[cache_key]
         THEN NoProof
         ELSE z.cached_proofs[cache_key]
    ELSE NoProof

cache_proof(z, cache_key, proof, now) ==
    [z EXCEPT !.cached_proofs = Put(@, cache_key, proof),
              !.expiry_times = Put(@, cache_key, now + ProofLifetime)]

serialize_public_inputs(batch) ==
    <<batch.previous_state_root, batch.state_root, Len(batch.transactions), batch.gas_used>>

\* the proof id is taken from the clock before the generation sleeps
generate_state_transition_proof(public_inputs, now) ==
    [proof_id |-> now, proof_type |-> "StateTransition", public_inputs |-> public_inputs,
     verification_key_id |-> "state_transition_vk"]

\* generate_batch_proof at time now; the call ends at the time it returns as now
generate_batch_proof(z, batch, now) ==
    LET cache_key == compute_batch_cache_key(batch)
        cached_proof == get_cached_proof(z, cache_key, now)
        proof == generate_state_transition_proof(serialize_public_inputs(batch), now)
    IN  IF cached_proof # NoProof
        THEN [zk |-> z, proof |-> cached_proof, now |-> now]
        ELSE [zk |-> cache_proof(z, cache_key, proof, now + ProofGenerationTime),
              proof |-> proof, now |-> now + ProofGenerationTime]

verify_proof_with_key(proof, key) == TRUE

verify_proof(z, proof) ==
    IF proof.proof_id \in DOMAIN z.verification_cache
    THEN [zk |-> z, result |-> "ok", valid |-> z.verification_cache[proof.proof_id]]
    ELSE IF proof.verification_key_id \notin z.verification_keys
    THEN [zk |-> z, result |-> "Verification key not found", valid |-> FALSE]
    ELSE [zk |-> [z EXCEPT !.verification_cache =
                    Put(@, proof.proof_id,
                        verify_proof_with_key(proof, proof.verification_key_id))],
          result |-> "ok",
          valid |-> verify_proof_with_key(proof, proof.verification_key_id)]

(***************************************************************************)
(* The engine as a state machine: construction, the public                 *)
(* submit_transaction and the three periodic ticks.                        *)
(*                                                                         *)
(* Each start_* function spawns its loop over Arc::downgrade of a          *)
(* temporary Arc (mod.rs:510), so the first upgrade() fails and the loop   *)
(* body never runs.  The ticks are modelled as if the loops were           *)
(* scheduled: each action is one call of the loop body.                    *)
(***************************************************************************)
NoCall == [op |-> "none"]

Init ==
    /\ pool = PoolNew
    /\ queue = QueueNew
    /\ batch_task = "running"
    /\ bp = BatchProcessorNew
    /\ rollup = RollupNew
    /\ fin = FinalityNew
    /\ sm = StateManagerNew
    /\ clock = 0
    /\ ret = NoCall
    /\ admitted = <<>>
    /\ registered = {}
    /\ zk = ZKProofSystemNew

AdvanceClock ==
    /\ clock < MaxClock
    /\ clock' = clock + 1
    /\ UNCHANGED <<pool, queue, batch_task, bp, rollup, fin, sm, ret, admitted, registered, zk>>

SubmitTransaction ==
    /\ Len(admitted) < MaxTx
    /\ \E t \in EngineTxs, approved \in BOOLEAN :
        LET tx == [t EXCEPT !.id = Len(admitted) + 1]
            res == submit_transaction(pool, tx, approved)
        IN  /\ pool' = res.pool
            /\ admitted' = IF res.result = "ok" THEN Append(admitted, tx) ELSE admitted
            /\ ret' = [op |-> "submit_transaction", tx |-> tx, approved |-> approved,
                       result |-> res.result]
    /\ UNCHANGED <<queue, batch_task, bp, rollup, fin, sm, clock, registered, zk>>

\* one iteration of the loop of start_batch_processor: a panic inside
\* process_batch ends the task
BatchTick ==
    /\ batch_task = "running"
    /\ pool' = drain(pool, clock)
    /\ \E txs \in {batch_transactions(pool)} :
        IF txs = <<>>
        THEN /\ ret' = [op |-> "process_pending_transactions", result |-> "idle"]
             /\ UNCHANGED <<queue, batch_task, bp>>
        ELSE \E validated \in validate_transactions(txs) :
             \E executed \in {execute_loop(bp.state, validated)} :
             \E order \in IterationOrders(executed.state.balances) :
             \E res \in {process_batch(bp, validated, order, clock)} :
                /\ bp' = res.bp
                /\ batch_task' = IF res.panicked THEN "panicked" ELSE "running"
                /\ queue' = IF res.panicked THEN queue
                             ELSE enqueue_result(queue, res.batch)
                /\ ret' = [op |-> "process_pending_transactions",
                           result |-> IF res.panicked THEN "panic" ELSE "ok"]
    /\ UNCHANGED <<rollup, fin, sm, clock, admitted, registered, zk>>

SettlementTick ==
    /\ queue' = process_settlement_queue(queue, rollup, clock).queue
    /\ rollup' = process_settlement_queue(queue, rollup, clock).rollup
    /\ ret' = [op |-> "process_settlement_queue", result |-> "ok"]
    /\ UNCHANGED <<pool, batch_task, bp, fin, sm, clock, admitted, registered, zk>>

FinalityTick ==
    /\ queue' = monitor_finality(queue, fin, clock).queue
    /\ fin' = monitor_finality(queue, fin, clock).fin
    /\ ret' = [op |-> "monitor_finality", now |-> clock,
               finalized |-> monitor_finality(queue, fin, clock).finalized]
    /\ UNCHANGED <<pool, batch_task, bp, rollup, sm, clock, admitted, registered, zk>>

Next ==
    \/ AdvanceClock
    \/ SubmitTransaction
    \/ BatchTick
    \/ SettlementTick
    \/ FinalityTick

Spec == Init /\ [][Next]_vars

(***************************************************************************)
(* Properties of admission.                                                *)
(***************************************************************************)
\* the number of transactions of the sender of admitted[i] admitted before it
EarlierOfSender(i) ==
    Cardinality({j \in 1..(i - 1) : admitted[j].from_address = admitted[i].from_address})

AlreadyAdmitted(tx) ==
    \E i \in 1..Len(admitted) :
        /\ admitted[i].id # tx.id
        /\ admitted[i].from_address = tx.from_address
        /\ admitted[i].nonce = tx.nonce

\* a call that passed validate_transaction and the security gate and found
\* room in the pool (a rejected call leaves the pool as it found it)
ReachedNonceCheck ==
    /\ validate_transaction(ret.tx) = "ok"
    /\ ret.approved
    /\ ret.result # "ok" => pool.total_size < MaxPendingTransactions

\* C1: a transaction is admitted only when its nonce is the sender's tracked
\* nonce + 1 (0 for a sender never seen), so the nonces admitted for a sender
\* are 1, 2, 3, ... in the order of admission: nonce N + 1 is admitted only
\* after nonce N; a transaction carrying an already admitted nonce is never
\* admitted, and when it reaches the nonce check it is rejected with the
\* nonce-mismatch error.
C1_NonceOrder ==
    /\ \A i \in 1..Len(admitted) : admitted[i].nonce = EarlierOfSender(i) + 1
    /\ \A a \in Addresses :
            Get(pool.nonce_tracker, a, 0) =
                Cardinality({i \in 1..Len(admitted) : admitted[i].from_address = a})
    /\ ret.op = "submit_transaction" =>
            /\ ret.result = "ok" => admitted[Len(admitted)] = ret.tx
            /\ AlreadyAdmitted(ret.tx) => ret.result # "ok"
            /\ (AlreadyAdmitted(ret.tx) /\ ReachedNonceCheck) => ret.result = "Invalid nonce"

\* both nonces of one sender were admitted, and a repeat of the first one was
\* then rejected at the nonce check
C1_Witness ==
    /\ ret.op = "submit_transaction"
    /\ ret.result = "Invalid nonce"
    /\ AlreadyAdmitted(ret.tx)
    /\ \E i, j \in 1..Len(admitted) :
            /\ i < j
            /\ admitted[i].from_address = ret.tx.from_address
            /\ admitted[j].from_address = ret.tx.from_address
            /\ admitted[i].nonce = 1
            /\ admitted[j].nonce = 2

(***************************************************************************)
(* The public API of BatchProcessor and OptimisticRollup called directly,  *)
(* as a library user or a test does.                                       *)
(***************************************************************************)
\* transfers handed to process_batch directly: an amount of zero is covered by
\* the genesis balance of zero, an amount of one is not
DirectTx(id) ==
    {Tx(id, "a1", "a2", "GCC", a, id, MinGasLimit, FALSE, TRUE) : a \in {0, 1}}

DirectLists ==
    {<<>>} \cup {<<x>> : x \in DirectTx(1)}
           \cup {<<x, y>> : x \in DirectTx(1), y \in DirectTx(2)}

\* a 32-byte string that is the digest of no state
ForgedRoot == [kind |-> "forged", data |-> <<>>]

\* a byte string of another length than 32
ShortRoot == [kind |-> "short", data |-> <<>>]

\* the batches handed to submit_batch: the ones process_batch returned, as
\* they are or with the state root or the transaction list replaced
Submittable ==
    UNION {{b, [b EXCEPT !.state_root = ForgedRoot],
               [b EXCEPT !.state_root = ShortRoot],
               [b EXCEPT !.transactions = <<>>]} : b \in Range(bp.produced)}

ProcessBatch ==
    /\ Len(bp.produced) < MaxBatches
    /\ \E txs \in DirectLists :
       \E validated \in validate_transactions(txs) :
       \E order \in IterationOrders(execute_loop(bp.state, validated).state.balances) :
            LET res == process_batch(bp, validated, order, clock)
            IN  /\ bp' = res.bp
                /\ ret' = [op |-> "process_batch",
                           result |-> IF res.panicked THEN "panic" ELSE "ok"]
    /\ UNCHANGED <<pool, queue, batch_task, rollup, fin, sm, clock, admitted, registered, zk>>

SubmitBatch ==
    /\ Len(rollup.merkle_roots) < MaxSubmits
    /\ \E batch \in Submittable :
            /\ rollup' = submit_batch(rollup, batch).rollup
            /\ ret' = [op |-> "submit_batch", batch |-> batch,
                       result |-> submit_batch(rollup, batch).result]
    /\ UNCHANGED <<pool, queue, batch_task, bp, fin, sm, clock, admitted, registered, zk>>

SubmitChallenge ==
    /\ rollup.next_challenge_id <= MaxChallenges
    /\ \E batch_id \in 0..MaxClock, challenge_type \in ChallengeInputs,
          stake_amount \in {MinChallengeStake - 1, MinChallengeStake} :
            LET res == submit_challenge(rollup, batch_id, challenge_type,
                                        stake_amount, clock)
            IN  /\ rollup' = res.rollup
                /\ ret' = [op |-> "submit_challenge", batch_id |-> batch_id,
                           stake_amount |-> stake_amount, now |-> clock,
                           challenge_id |-> rollup.next_challenge_id,
                           result |-> res.result]
    /\ UNCHANGED <<pool, queue, batch_task, bp, fin, sm, clock, admitted, registered, zk>>

ProcessChallenge ==
    /\ \E challenge_id \in 1..MaxChallenges :
            LET res == process_challenge(rollup, challenge_id)
            IN  /\ rollup' = res.rollup
                /\ ret' = [op |-> "process_challenge", challenge_id |-> challenge_id,
                           batch_id |->
                                IF challenge_id \in DOMAIN rollup.active_challenges
                                THEN rollup.active_challenges[challenge_id].batch_id
                                ELSE -1,
                           result |-> res.result]
    /\ UNCHANGED <<pool, queue, batch_task, bp, fin, sm, clock, admitted, registered, zk>>

NextRollup ==
    \/ AdvanceClock
    \/ ProcessBatch
    \/ SubmitBatch
    \/ SubmitChallenge
    \/ ProcessChallenge

SpecRollup == Init /\ [][NextRollup]_vars

\* process_challenge along its ChallengeSuccessful arm.  verify_challenge as
\* written never returns that outcome; the arm, handle_successful_challenge and
\* revert_batch are exercised here with the outcome supplied.
ProcessChallengeSuccessful ==
    /\ \E challenge_id \in DOMAIN rollup.active_challenges :
            LET res == resolve_challenge_with(rollup, rollup.active_challenges[challenge_id],
                                              "ChallengeSuccessful")
            IN  /\ rollup' = res.rollup
                /\ ret' = [op |-> "process_challenge", challenge_id |-> challenge_id,
                           batch_id |-> rollup.active_challenges[challenge_id].batch_id,
                           result |-> res.result]
    /\ UNCHANGED <<pool, queue, batch_task, bp, fin, sm, clock, admitted, registered, zk>>

NextRevert ==
    \/ NextRollup
    \/ ProcessChallengeSuccessful
    \/ FinalityTick

SpecRevert == Init /\ [][NextRevert]_vars

(***************************************************************************)
(* The public API of FinalityEngine next to the rollup and the finality    *)
(* monitor of the engine.                                                  *)
(***************************************************************************)
TrackL1Submission ==
    /\ \E batch_id \in DOMAIN rollup.batches :
            /\ fin' = track_l1_submission(fin, batch_id, clock)
            /\ ret' = [op |-> "track_l1_submission", batch_id |-> batch_id,
                       submitted_at |-> clock, result |-> "ok"]
    /\ UNCHANGED <<pool, queue, batch_task, bp, rollup, sm, clock, admitted, registered, zk>>

RegisterChallenge ==
    /\ \E batch_id \in DOMAIN rollup.batches, challenge_type \in ChallengeInputs :
            /\ fin' = register_challenge(fin, batch_id, challenge_type, clock)
            /\ registered' = registered \cup {batch_id}
            /\ ret' = [op |-> "register_challenge", batch_id |-> batch_id]
    /\ UNCHANGED <<pool, queue, batch_task, bp, rollup, sm, clock, admitted, zk>>

NextFinality ==
    \/ AdvanceClock
    \/ ProcessBatch
    \/ SubmitBatch
    \/ TrackL1Submission
    \/ RegisterChallenge
    \/ FinalityTick

SpecFinality == Init /\ [][NextFinality]_vars

(***************************************************************************)
(* Two runs of process_batch on the same list from the same state.         *)
(***************************************************************************)
\* what one run of process_batch on txs from the state of b can return
Runs(b, txs) ==
    UNION {{process_batch(b, validated, order, clock) :
                order \in IterationOrders(execute_loop(b.state, validated).state.balances)} :
            validated \in validate_transactions(txs)}

ProcessBatchTwice ==
    /\ \E txs \in DirectLists :
       \E first \in Runs(bp, txs), second \in Runs(bp, txs) :
            ret' = [op |-> "process_batch_twice", txs |-> txs,
                    first |-> [transactions |-> first.batch.transactions,
                               state_root |-> first.batch.state_root],
                    second |-> [transactions |-> second.batch.transactions,
                                state_root |-> second.batch.state_root]]
    /\ UNCHANGED <<pool, queue, batch_task, bp, rollup, fin, sm, clock, admitted, registered, zk>>

NextDeterminism ==
    \/ ProcessBatch
    \/ ProcessBatchTwice

SpecDeterminism == Init /\ [][NextDeterminism]_vars

(***************************************************************************)
(* The StateManager through its public API.                                *)
(***************************************************************************)
\* the digest a caller names as the root after its update
UpdateRoot(n) == Sha256(<<n>>)

UpdateRoots == {ZeroRoot} \cup {UpdateRoot(n) : n \in 1..MaxUpdates}

UpdateChanges ==
    {StateChange("BalanceUpdate", a, NoKey, U256Value(v)) : a \in Addresses, v \in {1, 2}}
    \cup {StateChange("NonceUpdate", "a1", NoKey, U256Value(1)),
          StateChange("StorageUpdate", "a1", 0, U256Value(1)),
          StateChange("AccountCreation", "a1", NoKey, AccountValue("account")),
          StateChange("AccountDeletion", "a1", NoKey, [type |-> "None", v |-> 0])}

ApplyStateUpdate ==
    /\ sm.state.transaction_count < MaxUpdates
    /\ \E change \in UpdateChanges, before \in UpdateRoots :
            LET update ==
                    [block_number |-> sm.state.block_number + 1, updates |-> <<change>>,
                     gas_used |-> 1, timestamp |-> clock, state_root_before |-> before,
                     state_root_after |-> UpdateRoot(sm.state.transaction_count + 1)]
                res == apply_state_update(sm, update)
            IN  /\ sm' = res.sm
                /\ ret' = [op |-> "apply_state_update", update |-> update,
                           result |-> res.result]
    /\ UNCHANGED <<pool, queue, batch_task, bp, rollup, fin, clock, admitted, registered, zk>>

GetAccount ==
    /\ \E address \in Addresses :
            /\ sm' = get_account(sm, address).sm
            /\ ret' = [op |-> "get_account", address |-> address,
                       result |-> get_account(sm, address).result]
    /\ UNCHANGED <<pool, queue, batch_task, bp, rollup, fin, clock, admitted, registered, zk>>

NextState ==
    \/ ApplyStateUpdate
    \/ GetAccount

SpecState == Init /\ [][NextState]_vars

(***************************************************************************)
(* The engine over a processor whose senders hold a balance.  No operation *)
(* of BatchProcessor credits an account that holds nothing, so these       *)
(* balances are an assumption: they stand for a genesis allocation.        *)
(***************************************************************************)
GenesisBalances == [k \in {<<a, "GCC">> : a \in Addresses} |-> MaxTx]

InitFunded ==
    /\ pool = PoolNew
    /\ queue = QueueNew
    /\ batch_task = "running"
    /\ bp = [BatchProcessorNew EXCEPT !.state.balances = GenesisBalances]
    /\ rollup = RollupNew
    /\ fin = FinalityNew
    /\ sm = StateManagerNew
    /\ clock = 0
    /\ ret = NoCall
    /\ admitted = <<>>
    /\ registered = {}
    /\ zk = ZKProofSystemNew

\* the batch tick can take a step that changes the state: the task is alive and
\* either the pool holds a transaction or the tick has not yet reported idle
\* (this is ENABLED <<BatchTick>>_vars as a state predicate)
BatchTickCanRun ==
    /\ batch_task = "running"
    /\ \/ batch_transactions(pool) # <<>>
       \/ ret # [op |-> "process_pending_transactions", result |-> "idle"]

\* weak fairness of the batch tick, WF_vars(BatchTick), written out over
\* BatchTickCanRun
BatchTickFair == []<>(~BatchTickCanRun) \/ []<><<BatchTick>>_vars

\* the loops of start_batch_processor and start_settlement_processor run their
\* tick again after every sleep
SpecFunded ==
    /\ InitFunded
    /\ [][Next]_vars
    /\ BatchTickFair
    /\ WF_vars(SettlementTick)

(***************************************************************************)
(* Properties of the StateManager.                                         *)
(***************************************************************************)
\* C2: apply_state_update with a state_root_before that differs from the
\* current state root returns the root-mismatch error and changes nothing:
\* the state (root, block number, balances, nonces, storage), the update
\* history and the rest of the manager are as they were before the call.
C2_RejectedUpdate ==
    [][(ret'.op = "apply_state_update"
            /\ ret'.update.state_root_before # sm.state.state_root)
        => (ret'.result = "State root mismatch" /\ sm' = sm)]_vars

\* an update with a stale root was rejected by a manager that holds balances
\* and a recorded update
C2_Witness ==
    /\ ret.op = "apply_state_update"
    /\ ret.result = "State root mismatch"
    /\ ret.update.state_root_before # sm.state.state_root
    /\ sm.state.balances # EmptyMap
    /\ sm.updates # <<>>

(***************************************************************************)
(* Properties of the rollup.                                               *)
(***************************************************************************)
\* the batch the rollup recorded at position i of its list of merkle roots
SubmittedBatch(i) == rollup.batches[rollup.merkle_roots[i][2]].batch

\* batches b1 and b2 were returned by process_batch one right after the other
ProducedConsecutively(b1, b2) ==
    \E k \in 1..(Len(bp.produced) - 1) : bp.produced[k] = b1 /\ bp.produced[k + 1] = b2

\* C3: state roots form a hash chain: when two batches the BatchProcessor
\* produced one after the other were accepted by submit_batch one after the
\* other, the later batch's previous_state_root is the earlier batch's
\* state_root.
C3_HashChain ==
    \A i \in 1..(Len(rollup.merkle_roots) - 1) :
        (/\ rollup.merkle_roots[i][2] # rollup.merkle_roots[i + 1][2]
         /\ ProducedConsecutively(SubmittedBatch(i), SubmittedBatch(i + 1)))
        => SubmittedBatch(i + 1).previous_state_root = SubmittedBatch(i).state_root

ClaimsUnderivableRoot(batch) == batch.state_root = ForgedRoot

\* the batch is as process_batch returned it: the root it claims is the one
\* computed from its transactions
ClaimsComputedRoot(batch) == batch \in Range(bp.produced)

Outcomes == {"ChallengeSuccessful", "ChallengeFailed", "NoContest"}

\* C6: process_challenge returns ChallengeSuccessful exactly when the root
\* re-derived from the challenged batch's transactions differs from the root
\* the batch claims, and ChallengeFailed when the two match.
C6_OutcomeFollowsRoots ==
    (ret.op = "process_challenge" /\ ret.result \in Outcomes)
    => /\ ClaimsUnderivableRoot(rollup.batches[ret.batch_id].batch)
            => ret.result = "ChallengeSuccessful"
       /\ ClaimsComputedRoot(rollup.batches[ret.batch_id].batch)
            => ret.result = "ChallengeFailed"

C8_SenderOrder ==
    \A i, j \in 1..Len(bp.last_exec) :
        (i < j /\ bp.last_exec[i].from_address = bp.last_exec[j].from_address)
        => bp.last_exec[i].nonce < bp.last_exec[j].nonce

\* C9: two runs of process_batch on the same ordered list from the same state
\* commit the same transactions in the same order and produce the same root.
C9_Deterministic ==
    ret.op = "process_batch_twice"
    => /\ ret.first.transactions = ret.second.transactions
       /\ ret.first.state_root = ret.second.state_root

Committed(id) ==
    \E k \in 1..Len(bp.produced) :
        \E i \in 1..Len(bp.produced[k].transactions) :
            bp.produced[k].transactions[i].id = id

Submitted(id) ==
    \E b \in DOMAIN rollup.batches :
        \E i \in 1..Len(rollup.batches[b].batch.transactions) :
            rollup.batches[b].batch.transactions[i].id = id

FastFinalityThreshold == 6

TrackedIds == {0, 1}

\* the three requirements track_l1_submission lists, all satisfied or one not
RequirementFlags ==
    {flags \in [1..3 -> BOOLEAN] : Cardinality({i \in 1..3 : ~flags[i]}) <= 1}

ConfirmationCounts ==
    {0, FastFinalityThreshold, RequiredConfirmations - 1, RequiredConfirmations}

PendingFinality(flags, challenge_period_end, l1_confirmations) ==
    [finality_requirements |-> [i \in 1..3 |-> [satisfied |-> flags[i]]],
     challenge_period_end |-> challenge_period_end,
     l1_confirmations |-> l1_confirmations]

PendingInputs ==
    {PendingFinality(flags, e, c) :
        flags \in RequirementFlags, e \in 0..MaxClock, c \in ConfirmationCounts}

TrackedMaps == UNION {[S -> PendingInputs] : S \in SUBSET TrackedIds}

SubmittedBatchOf(id) ==
    [batch |-> assemble_batch(<<DirectTx(1)>>, ZeroRoot, 0, id),
     confirmation_count |-> 0, challenge_period_end |-> ChallengePeriod]

SubmittedMaps == {[id \in S |-> SubmittedBatchOf(id)] : S \in SUBSET TrackedIds}

InitTracked ==
    /\ pool = PoolNew
    /\ \E submitted \in SubmittedMaps :
            queue = [QueueNew EXCEPT !.submitted_batches = submitted]
    /\ batch_task = "running"
    /\ bp = BatchProcessorNew
    /\ rollup = RollupNew
    /\ \E pending \in TrackedMaps :
            fin = [FinalityNew EXCEPT !.pending_finality = pending]
    /\ sm = StateManagerNew
    /\ clock = 0
    /\ ret = NoCall
    /\ admitted = <<>>
    /\ registered = {}
    /\ zk = ZKProofSystemNew

UpdateL1Confirmation ==
    /\ \E id \in TrackedIds, confirmations \in ConfirmationCounts :
            /\ fin' = update_l1_confirmation(fin, id, clock, confirmations)
            /\ ret' = [op |-> "update_l1_confirmation", batch_id |-> id,
                       confirmations |-> confirmations]
    /\ UNCHANGED <<pool, queue, batch_task, bp, rollup, sm, clock, admitted, registered, zk>>

NextTracked ==
    \/ AdvanceClock
    \/ UpdateL1Confirmation
    \/ SettlementTick
    \/ FinalityTick

SpecTracked == InitTracked /\ [][NextTracked]_vars

(***************************************************************************)
(* Properties of the finality monitor.                                     *)
(***************************************************************************)
Tracked(id) == fin.pending_finality[id]

AllRequirementsSatisfied(pending) ==
    \A i \in DOMAIN pending.finality_requirements :
        pending.finality_requirements[i].satisfied

\* what check_finalized_batches reported in the call that just returned
Reported == IF ret.op = "monitor_finality" THEN ret.finalized ELSE {}

ReportedOnlyWhenFinal ==
    \A id \in Reported :
        /\ id \in DOMAIN fin.pending_finality
        /\ AllRequirementsSatisfied(Tracked(id))
        /\ clock > Tracked(id).challenge_period_end
        /\ Tracked(id).l1_confirmations >= RequiredConfirmations

ShortOfConfirmations(id) ==
    /\ id \in DOMAIN fin.pending_finality
    /\ Tracked(id).l1_confirmations < RequiredConfirmations

UnconfirmedStaysPending ==
    \A id \in TrackedIds :
        ShortOfConfirmations(id)
        => /\ id \notin Reported
           /\ id \notin DOMAIN fin.cached_finality
           /\ id \notin DOMAIN queue.finalized_batches

\* C11: check_finalized_batches reports a batch only if all its finality
\* requirements are satisfied, its challenge period has ended and its L1
\* confirmations are at least required_confirmations; a batch whose
\* confirmations stay below that is never reported, cached or moved to the
\* finalized set, and no step removes it from pending_finality or raises its
\* confirmation count.
C11_FinalOnlyWhenRequirementsHold ==
    /\ [](ReportedOnlyWhenFinal /\ UnconfirmedStaysPending)
    /\ [][\A id \in TrackedIds :
            ShortOfConfirmations(id)
            => /\ id \in DOMAIN fin'.pending_finality
               /\ fin'.pending_finality[id] = fin.pending_finality[id]]_vars

\* the monitor reported one tracked batch and left another, short of
\* confirmations but otherwise passing, pending
C11_Witness ==
    /\ Reported # {}
    /\ \E id \in TrackedIds :
            /\ ShortOfConfirmations(id)
            /\ AllRequirementsSatisfied(Tracked(id))
            /\ clock > Tracked(id).challenge_period_end
            /\ id \notin Reported


NoActiveChallenge(id) ==
    \A c \in DOMAIN fin.active_challenges : fin.active_challenges[c].batch_id # id

\* the finality type the engine reports for a batch: the one it cached
ReportsFinality(id, finality_type) ==
    /\ id \in DOMAIN fin.cached_finality
    /\ fin.cached_finality[id].finalized
    /\ fin.cached_finality[id].finality_type = finality_type

FinalizedIds == DOMAIN queue.finalized_batches

SubmittedIds == DOMAIN queue.submitted_batches

\* C13: the engine's finalized set is append-only and disjoint from the
\* submitted set: a batch id in finalized_batches stays there with the entry
\* written for it, a batch enters finalized_batches only from
\* submitted_batches and leaves submitted_batches in that step, and no batch
\* id is in both collections.
C13_FinalizedAppendOnly ==
    /\ [](FinalizedIds \cap SubmittedIds = {})
    /\ [][/\ \A id \in FinalizedIds :
                /\ id \in DOMAIN queue'.finalized_batches
                /\ queue'.finalized_batches[id] = queue.finalized_batches[id]
          /\ \A id \in DOMAIN queue'.finalized_batches :
                id \notin FinalizedIds
                => (id \in SubmittedIds /\ id \notin DOMAIN queue'.submitted_batches)]_vars

\* the monitor has moved one submitted batch to the finalized set and left
\* another one submitted
C13_Witness ==
    /\ ret.op = "monitor_finality"
    /\ FinalizedIds # {}
    /\ SubmittedIds # {}


(***************************************************************************)
(* Snapshots and rollback of the StateManager.  serde_json writes a map    *)
(* only when its keys are strings or numbers: the keys of accounts and     *)
(* nonces are Address([u8; 20]) and those of storage and balances are      *)
(* tuples, so to_vec returns the error "key must be a string" as soon as   *)
(* one of these four maps holds an entry.  total_supply has String keys.   *)
(* The encoded state is the sequence of the field values in declaration    *)
(* order; compress_data and decompress_data return their argument.         *)
(***************************************************************************)
MaxSnapshots == 2

MaxRollbacks == 2

has_non_string_keys(state) ==
    \/ state.accounts # EmptyMap
    \/ state.storage # EmptyMap
    \/ state.balances # EmptyMap
    \/ state.nonces # EmptyMap

to_vec(state) ==
    IF has_non_string_keys(state)
    THEN [ok |-> FALSE, bytes |-> <<>>]
    ELSE [ok |-> TRUE,
          bytes |-> <<state.state_root, state.block_number, state.timestamp,
                      state.accounts, state.storage, state.balances, state.nonces,
                      state.total_supply, state.transaction_count, state.gas_used>>]

from_slice(bytes) ==
    [state_root |-> bytes[1], block_number |-> bytes[2], timestamp |-> bytes[3],
     accounts |-> bytes[4], storage |-> bytes[5], balances |-> bytes[6],
     nonces |-> bytes[7], total_supply |-> bytes[8], transaction_count |-> bytes[9],
     gas_used |-> bytes[10]]

compress_data(data) == data

decompress_data(compressed_data) == compressed_data

clear_cache(m) == [m EXCEPT !.cached_accounts = EmptyMap, !.cached_storage = EmptyMap]

oldest_block(snapshots) ==
    CHOOSE block \in DOMAIN snapshots : \A other \in DOMAIN snapshots : block <= other

NoSnapshot == [block_number |-> -1]

create_snapshot(m, now) ==
    LET serialized_state == to_vec(m.state)
        snapshot ==
            [block_number |-> m.state.block_number, state_root |-> m.state.state_root,
             compressed_state |-> compress_data(serialized_state.bytes),
             created_at |-> now]
        inserted == Put(m.snapshots, m.state.block_number, snapshot)
    IN  IF ~serialized_state.ok
        THEN [sm |-> m, result |-> "key must be a string", snapshot |-> NoSnapshot]
        ELSE [sm |-> [m EXCEPT !.snapshots =
                        IF Cardinality(DOMAIN inserted) > MaxSnapshots
                        THEN Remove(inserted, oldest_block(inserted))
                        ELSE inserted],
              result |-> "ok", snapshot |-> snapshot]

restore_from_snapshot(m, snapshot) ==
    clear_cache([m EXCEPT !.state = from_slice(decompress_data(snapshot.compressed_state))])

\* a search that takes the oldest retained snapshot at or before the target
best_snapshot_oldest(snapshots, target_block) ==
    LET at_or_before == {b \in DOMAIN snapshots : b <= target_block}
    IN  IF at_or_before = {} THEN NoSnapshot
        ELSE snapshots[CHOOSE b \in at_or_before : \A other \in at_or_before : b <= other]

best_snapshot(snapshots, target_block) ==
    LET at_or_before == {b \in DOMAIN snapshots : b <= target_block}
    IN  IF at_or_before = {} THEN NoSnapshot
        ELSE snapshots[CHOOSE b \in at_or_before : \A other \in at_or_before : b >= other]

rollback_to_block(m, target_block, reason, now) ==
    LET snapshot == best_snapshot(m.snapshots, target_block)
    IN  IF target_block >= m.state.block_number
        THEN [sm |-> m, result |-> "Cannot rollback to future block"]
        ELSE IF snapshot = NoSnapshot
        THEN [sm |-> m, result |-> "No snapshot found for rollback target"]
        ELSE [sm |-> [restore_from_snapshot(m, snapshot) EXCEPT
                        !.rollback_points =
                            Append(@, [block_number |-> target_block,
                                       state_snapshot |-> snapshot,
                                       reason |-> reason, created_at |-> now])],
              result |-> "ok"]

\* the changes of the updates: a SupplyUpdate, whose map is keyed by the token
\* name and can be encoded, and a BalanceUpdate, after which it cannot
SnapshotChanges ==
    {StateChange("SupplyUpdate", "a1", NoKey, U256Value(1)),
     StateChange("BalanceUpdate", "a1", NoKey, U256Value(1))}

\* apply_state_update takes the block number from the update and compares it
\* with nothing: the update names the next block, or any block up to it
ApplySnapshotUpdate ==
    /\ sm.state.transaction_count < MaxUpdates
    /\ \E change \in SnapshotChanges, block_number \in 0..(sm.state.block_number + 1) :
            LET update ==
                    [block_number |-> block_number, updates |-> <<change>>,
                     gas_used |-> 1, timestamp |-> clock,
                     state_root_before |-> sm.state.state_root,
                     state_root_after |-> UpdateRoot(block_number)]
                res == apply_state_update(sm, update)
            IN  /\ sm' = res.sm
                /\ ret' = [op |-> "apply_state_update", update |-> update,
                           result |-> res.result]
    /\ UNCHANGED <<pool, queue, batch_task, bp, rollup, fin, clock, admitted, registered, zk>>

CreateSnapshot ==
    /\ LET res == create_snapshot(sm, clock)
       IN  /\ sm' = res.sm
           /\ ret' = [op |-> "create_snapshot", result |-> res.result,
                      snapshot |-> res.snapshot]
    /\ UNCHANGED <<pool, queue, batch_task, bp, rollup, fin, clock, admitted, registered, zk>>

\* restore_from_snapshot of the snapshot the preceding create_snapshot returned
RestoreFromSnapshot ==
    /\ ret.op = "create_snapshot"
    /\ ret.result = "ok"
    /\ sm' = restore_from_snapshot(sm, ret.snapshot)
    /\ ret' = [op |-> "restore_from_snapshot", result |-> "ok", snapshot |-> ret.snapshot]
    /\ UNCHANGED <<pool, queue, batch_task, bp, rollup, fin, clock, admitted, registered, zk>>

RollbackToBlock ==
    /\ Len(sm.rollback_points) < MaxRollbacks
    /\ \E target_block \in 0..MaxUpdates, reason \in {"FraudProof"} :
            LET res == rollback_to_block(sm, target_block, reason, clock)
            IN  /\ sm' = res.sm
                /\ ret' = [op |-> "rollback_to_block", target_block |-> target_block,
                           result |-> res.result]
    /\ UNCHANGED <<pool, queue, batch_task, bp, rollup, fin, clock, admitted, registered, zk>>

NextSnapshot ==
    \/ ApplySnapshotUpdate
    \/ CreateSnapshot
    \/ RestoreFromSnapshot
    \/ RollbackToBlock

SpecSnapshot == Init /\ [][NextSnapshot]_vars

\* C14: create_snapshot succeeds in every reachable state and the snapshot it
\* returns records the block number and the root of the current state;
\* restore_from_snapshot of that snapshot, called next, leaves the state root
\* and the block number as they were before the snapshot.
C14_SnapshotRoundTrip ==
    /\ [](ret.op = "create_snapshot"
            => /\ ret.result = "ok"
               /\ ret.snapshot.block_number = sm.state.block_number
               /\ ret.snapshot.state_root = sm.state.state_root)
    /\ [][ret'.op = "restore_from_snapshot"
            => /\ sm'.state.state_root = sm.state.state_root
               /\ sm'.state.block_number = sm.state.block_number]_vars


\* the retained snapshots at or before a block
RetainedAtOrBefore(target_block) == {b \in DOMAIN sm.snapshots : b <= target_block}

GreatestBlock(blocks) == CHOOSE b \in blocks : \A other \in blocks : other <= b

\* C15: rollback_to_block(B) fails and leaves the state manager as it was,
\* with no new rollback entry, when B is not below the current block number
\* or no retained snapshot has a block number at or before B; otherwise it
\* succeeds, the state root becomes the root recorded in the retained
\* snapshot with the greatest block number at or before B, and exactly one
\* rollback entry is added.
C15_RollbackToNearestSnapshot ==
    [][ret'.op = "rollback_to_block"
        => IF \/ ret'.target_block >= sm.state.block_number
              \/ RetainedAtOrBefore(ret'.target_block) = {}
           THEN /\ ret'.result # "ok"
                /\ sm' = sm
           ELSE /\ ret'.result = "ok"
                /\ sm'.state.state_root =
                        sm.snapshots[GreatestBlock(RetainedAtOrBefore(ret'.target_block))]
                            .state_root
                /\ Len(sm'.rollback_points) = Len(sm.rollback_points) + 1
                /\ sm'.snapshots = sm.snapshots]_vars

\* a rollback has succeeded with two retained snapshots at or before its
\* target and has changed the root to the root of the later one
C15_Witness ==
    /\ ret.op = "rollback_to_block"
    /\ ret.result = "ok"
    /\ Cardinality(RetainedAtOrBefore(ret.target_block)) >= 2
    /\ sm.state.state_root =
            sm.snapshots[GreatestBlock(RetainedAtOrBefore(ret.target_block))].state_root
    /\ sm.state.state_root # ZeroRoot


(***************************************************************************)
(* process_batch over transactions of several tokens and senders, from a   *)
(* GlobalState whose accounts hold a balance.  As in the funded engine     *)
(* above, the balances are an assumption that stands for a genesis         *)
(* allocation: no operation of BatchProcessor credits an empty account.    *)
(***************************************************************************)
ExecTokens == {"GCC", "SPIRIT"}

ExecTx(id) ==
    {Tx(id, from, to, token, amount, id, MinGasLimit, FALSE, TRUE) :
        from \in Addresses, to \in Addresses, token \in ExecTokens, amount \in {1, 2}}

ExecLists ==
    {<<x>> : x \in ExecTx(1)} \cup {<<x, y>> : x \in ExecTx(1), y \in ExecTx(2)}

HeldBalances == [{<<a, token>> : a \in Addresses, token \in ExecTokens} -> {0, 1}]

InitExecution ==
    /\ pool = PoolNew
    /\ queue = QueueNew
    /\ batch_task = "running"
    /\ \E balances \in HeldBalances :
            bp = [BatchProcessorNew EXCEPT !.state.balances = balances]
    /\ rollup = RollupNew
    /\ fin = FinalityNew
    /\ sm = StateManagerNew
    /\ clock = 0
    /\ ret = NoCall
    /\ admitted = <<>>
    /\ registered = {}
    /\ zk = ZKProofSystemNew

\* transfers of GCC from a1 to a2 with and without an amount, with and without
\* data, and with a gas limit below, at and above the uncapped cost
GasTx(id) ==
    {[Tx(id, "a1", "a2", "GCC", amount, id, gas_limit, FALSE, TRUE) EXCEPT !.data_len = len] :
        amount \in {0, 1, 2}, len \in {0, 1},
        gas_limit \in {MinGasLimit, BaseTransactionCost + DataCostPerByte + TransferCost,
                       MaxGasLimit}}

GasLists ==
    {<<x>> : x \in GasTx(1)} \cup {<<x, y>> : x \in GasTx(1), y \in GasTx(2)}

\* one call of process_batch; the call takes time, and the clock bounds the calls
ExecuteBatch ==
    /\ clock < MaxClock
    /\ clock' = clock + 1
    /\ \E txs \in ExecLists \cup GasLists :
       \E validated \in validate_transactions(txs) :
       \E order \in IterationOrders(execute_loop(bp.state, validated).state.balances) :
            LET res == process_batch(bp, validated, order, clock)
            IN  /\ bp' = res.bp
                /\ ret' = [op |-> "execute_transactions", before |-> bp.state.balances,
                           validated |-> validated,
                           executed |-> res.batch.transactions,
                           gas_used |-> res.batch.gas_used,
                           result |-> IF res.panicked THEN "panic" ELSE "ok"]
    /\ UNCHANGED <<pool, queue, batch_task, rollup, fin, sm, admitted, registered, zk>>

NextExecution == ExecuteBatch

SpecExecution == InitExecution /\ [][NextExecution]_vars

\* what a sender holds in a token, and a transfer booked in the token it names
Held(balances, address, token) == Get(balances, <<address, token>>, 0)

Transfer(balances, tx) ==
    LET debited == Put(balances, <<tx.from_address, tx.token_type>>,
                       Held(balances, tx.from_address, tx.token_type) - tx.amount)
    IN  Put(debited, <<tx.to_address, tx.token_type>>,
            Held(debited, tx.to_address, tx.token_type) + tx.amount)

\* a transaction is committed exactly when the sender holds the amount in the
\* transferred token after the earlier committed transfers; otherwise it is
\* dropped and the balances stay as they are
CommitStep(acc, tx) ==
    IF Held(acc.balances, tx.from_address, tx.token_type) >= tx.amount
    THEN [balances |-> Transfer(acc.balances, tx), executed |-> Append(acc.executed, tx)]
    ELSE acc

CommittedWithoutDoubleSpend(balances, txs) ==
    FoldSeq(CommitStep, [balances |-> balances, executed |-> <<>>], txs).executed

GccBetweenAccounts(tx) == tx.token_type = "GCC" /\ tx.from_address # tx.to_address

C16_GccOnly ==
    (/\ ret.op = "execute_transactions"
     /\ \A i \in DOMAIN ret.validated : GccBetweenAccounts(ret.validated[i]))
        => ret.executed = CommittedWithoutDoubleSpend(ret.before, ret.validated)


(***************************************************************************)
(* Concurrent calls of process_batch.  Each call is a task that takes a    *)
(* permit of parallelism_limiter, validates, takes the write lock of       *)
(* state_computer.current_state, executes its transactions one by one on   *)
(* the locked state, stores the new root, drops the lock, assembles the    *)
(* batch and returns the permit.  bp carries the permits, the lock holder  *)
(* (0: free), the tasks and the order in which they took the lock; a task  *)
(* keeps the state it found when it took the lock (started_from) and the   *)
(* state it left when it dropped it (committed).                           *)
(***************************************************************************)
MaxConcurrentBatches == 2

NumTasks == 3

TaskIds == 1..NumTasks

NoState == [state_root |-> "none"]

TaskNew ==
    [pc |-> "idle", txs |-> <<>>, executed |-> <<>>, gas_used |-> 0,
     started_from |-> NoState, committed |-> NoState]

TaskLists(t) ==
    {<<Tx(t, "a1", "a2", "GCC", 0, t, MinGasLimit, FALSE, TRUE)>>,
     <<Tx(t, "a1", "a2", "GCC", 0, t, MinGasLimit, FALSE, TRUE),
       Tx(t + NumTasks, "a2", "a1", "GCC", 0, t, MinGasLimit, FALSE, TRUE)>>}

InitConcurrent ==
    /\ pool = PoolNew
    /\ queue = QueueNew
    /\ batch_task = "running"
    /\ bp = [state |-> GlobalStateNew, produced |-> <<>>, last_exec |-> <<>>,
             permits |-> MaxConcurrentBatches, lock |-> 0,
             tasks |-> [t \in TaskIds |-> TaskNew], started |-> <<>>]
    /\ rollup = RollupNew
    /\ fin = FinalityNew
    /\ sm = StateManagerNew
    /\ clock = 0
    /\ ret = NoCall
    /\ admitted = <<>>
    /\ registered = {}
    /\ zk = ZKProofSystemNew

\* a write lock that is handed out while another task holds it
write_lock_free_unguarded(b) == TRUE

write_lock_free(b) == b.lock = 0

\* parallelism_limiter.acquire() and the start of validate_transactions
AcquirePermit(t) ==
    /\ bp.tasks[t].pc = "idle"
    /\ bp.permits > 0
    /\ \E txs \in TaskLists(t) :
            bp' = [bp EXCEPT !.permits = @ - 1,
                             !.tasks[t].pc = "validating",
                             !.tasks[t].txs = txs]
    /\ UNCHANGED <<pool, queue, batch_task, rollup, fin, sm, clock, ret, admitted, registered, zk>>

\* validate_transactions returns the valid transactions in completion order
ValidateTransactions(t) ==
    /\ bp.tasks[t].pc = "validating"
    /\ \E validated \in validate_transactions(bp.tasks[t].txs) :
            bp' = [bp EXCEPT !.tasks[t].pc = "waiting", !.tasks[t].txs = validated]
    /\ UNCHANGED <<pool, queue, batch_task, rollup, fin, sm, clock, ret, admitted, registered, zk>>

\* execute_transactions: current_state.write().await
LockState(t) ==
    /\ bp.tasks[t].pc = "waiting"
    /\ write_lock_free(bp)
    /\ bp' = [bp EXCEPT !.lock = t,
                        !.started = Append(@, t),
                        !.last_exec = bp.tasks[t].txs,
                        !.tasks[t].pc = "executing",
                        !.tasks[t].started_from = bp.state]
    /\ UNCHANGED <<pool, queue, batch_task, rollup, fin, sm, clock, ret, admitted, registered, zk>>

\* one turn of the loop of execute_transactions
ExecuteNext(t) ==
    /\ bp.tasks[t].pc = "executing"
    /\ bp.tasks[t].txs # <<>>
    /\ LET x == execute_step([state |-> bp.state, executed |-> bp.tasks[t].executed,
                              gas_used |-> bp.tasks[t].gas_used],
                             Head(bp.tasks[t].txs))
       IN  bp' = [bp EXCEPT !.state = x.state,
                            !.tasks[t].txs = Tail(@),
                            !.tasks[t].executed = x.executed,
                            !.tasks[t].gas_used = x.gas_used]
    /\ UNCHANGED <<pool, queue, batch_task, rollup, fin, sm, clock, ret, admitted, registered, zk>>

\* the end of execute_transactions: the new root is stored and the lock dropped
StoreRoot(t) ==
    /\ bp.tasks[t].pc = "executing"
    /\ bp.tasks[t].txs = <<>>
    /\ \E order \in IterationOrders(bp.state.balances) :
            LET root == compute_state_root(bp.state, order)
                state == [bp.state EXCEPT !.state_root = root]
            IN  bp' = [bp EXCEPT !.state = state,
                                 !.lock = IF @ = t THEN 0 ELSE @,
                                 !.tasks[t].pc = "assembling",
                                 !.tasks[t].committed = state]
    /\ UNCHANGED <<pool, queue, batch_task, rollup, fin, sm, clock, ret, admitted, registered, zk>>

\* build_merkle_proof, assemble_batch and update_metrics; the permit is
\* returned when the call ends, by a panic too
AssembleBatch(t) ==
    /\ bp.tasks[t].pc = "assembling"
    /\ LET batch == assemble_batch(bp.tasks[t].executed, bp.tasks[t].committed.state_root,
                                   bp.tasks[t].gas_used, clock)
       IN  /\ bp' = [bp EXCEPT !.produced = IF update_metrics_panics(batch) THEN @
                                            ELSE Append(@, batch),
                               !.permits = @ + 1,
                               !.tasks[t].pc = "done"]
           /\ ret' = [op |-> "process_batch", task |-> t,
                      result |-> IF update_metrics_panics(batch) THEN "panic" ELSE "ok"]
    /\ UNCHANGED <<pool, queue, batch_task, rollup, fin, sm, clock, admitted, registered, zk>>

NextConcurrent ==
    \E t \in TaskIds :
        \/ AcquirePermit(t)
        \/ ValidateTransactions(t)
        \/ LockState(t)
        \/ ExecuteNext(t)
        \/ StoreRoot(t)
        \/ AssembleBatch(t)

SpecConcurrent == InitConcurrent /\ [][NextConcurrent]_vars

\* the tasks in the middle of the execution stage
Executing == {t \in TaskIds : bp.tasks[t].pc = "executing"}

\* the calls that hold a permit
Running == {t \in TaskIds : bp.tasks[t].pc \notin {"idle", "done"}}

\* C17: executions of different batches never interleave: at most one task
\* is in its execution stage, and the state a task finds when its execution
\* starts is the state, with its balances, nonces and committed root, that
\* the task whose execution started just before it left behind (the first
\* one finds the initial state); at most max_concurrent_batches calls are
\* running at a time.
C17_ExecutionsNeverInterleave ==
    /\ Cardinality(Executing) <= 1
    /\ Cardinality(Running) <= MaxConcurrentBatches
    /\ \A i \in DOMAIN bp.started :
            bp.tasks[bp.started[i]].started_from =
                IF i = 1 THEN GlobalStateNew
                ELSE bp.tasks[bp.started[i - 1]].committed

\* a second task executes on the state the first one committed while the
\* first call is still running, and a third call waits for a permit
C17_Witness ==
    /\ Len(bp.started) = 2
    /\ bp.tasks[bp.started[2]].pc = "executing"
    /\ bp.tasks[bp.started[1]].pc = "assembling"
    /\ bp.tasks[bp.started[2]].started_from # GlobalStateNew
    /\ bp.tasks[bp.started[2]].started_from = bp.tasks[bp.started[1]].committed
    /\ bp.permits = 0


get_state_root(m) == m.state.state_root

\* the canonical root the rollup advanced to is the root of the submitted batch
RollupAdvancedToBatchRoot ==
    (ret.op = "submit_batch" /\ ret.result = "ok")
        => rollup.current_state_root = ret.batch.state_root

\* C18: there is one canonical L2 state: after submit_batch(batch) succeeds,
\* the root StateManager.get_state_root reports is the canonical root the
\* rollup advanced to, which is batch.state_root.
C18_OneCanonicalState ==
    (ret.op = "submit_batch" /\ ret.result = "ok")
        => /\ rollup.current_state_root = ret.batch.state_root
           /\ get_state_root(sm) = rollup.current_state_root


(***************************************************************************)
(* submit_challenge over a batch history that holds batches of every       *)
(* status its tests distinguish.  OptimisticRollup has no operation that   *)
(* sets a batch to Finalized, so the histories are supplied: submit_batch  *)
(* would have stored the Pending entries, and the Finalized ones stand for *)
(* a history in which finalization had been recorded.                      *)
(***************************************************************************)
HistoricalBatchOf(id, finality_status) ==
    [batch |-> assemble_batch(<<Tx(1, "a1", "a2", "GCC", 0, 1, MinGasLimit, FALSE, TRUE)>>,
                              UpdateRoot(id + 1), MinGasLimit, id),
     finality_status |-> finality_status]

BatchHistories ==
    UNION {[ids -> {"Pending", "Finalized"}] : ids \in SUBSET (0..MaxClock)}

InitChallenge ==
    /\ pool = PoolNew
    /\ queue = QueueNew
    /\ batch_task = "running"
    /\ bp = BatchProcessorNew
    /\ \E history \in BatchHistories :
            rollup = [RollupNew EXCEPT
                        !.batches = [id \in DOMAIN history |->
                                        HistoricalBatchOf(id, history[id])]]
    /\ fin = FinalityNew
    /\ sm = StateManagerNew
    /\ clock = 0
    /\ ret = NoCall
    /\ admitted = <<>>
    /\ registered = {}
    /\ zk = ZKProofSystemNew

NextChallenge ==
    \/ AdvanceClock
    \/ SubmitChallenge
    \/ ProcessChallenge

SpecChallenge == InitChallenge /\ [][NextChallenge]_vars

\* the challenge bookkeeping of the rollup
ChallengeBooks(r) == <<r.active_challenges, r.pending_challenges, r.next_challenge_id>>

\* the three grounds on which submit_challenge refuses a call
MustReject(r, batch_id, stake_amount) ==
    \/ stake_amount < MinChallengeStake
    \/ batch_id \notin DOMAIN r.batches
    \/ r.batches[batch_id].finality_status = "Finalized"

\* C19: submit_challenge is rejected when the stake is below the minimum, when
\* the batch id is unknown or when the batch is Finalized, and after any
\* rejection the active challenges, the pending-challenge map and
\* next_challenge_id are what they were before the call.
C19_RejectedChallengeChangesNothing ==
    [][(ret'.op = "submit_challenge" /\ clock' = clock)
        => /\ MustReject(rollup, ret'.batch_id, ret'.stake_amount) => ret'.result # "ok"
           /\ ret'.result # "ok" => ChallengeBooks(rollup') = ChallengeBooks(rollup)]_vars

\* a challenge with a sufficient stake has been refused because its batch is
\* Finalized, and the next challenge id is still the first one
C19_Witness ==
    /\ ret.op = "submit_challenge"
    /\ ret.result = "Batch already finalized"
    /\ ret.stake_amount >= MinChallengeStake
    /\ rollup.batches[ret.batch_id].finality_status = "Finalized"
    /\ rollup.next_challenge_id = 1

\* the challenge a successful submit_challenge opened is active with the
\* deadline now + fraud_proof_window
ChallengeOpenedWithDeadline ==
    (ret.op = "submit_challenge" /\ ret.result = "ok")
        => /\ ret.challenge_id \in DOMAIN rollup.active_challenges
           /\ rollup.active_challenges[ret.challenge_id].batch_id = ret.batch_id
           /\ rollup.active_challenges[ret.challenge_id].deadline
                    = ret.now + FraudProofWindow

\* the batch shows as Challenged, in the rollup's history or in the finality
\* engine's challenge period
ShowsChallenged(batch_id) ==
    \/ rollup.batches[batch_id].finality_status = "Challenged"
    \/ /\ batch_id \in DOMAIN fin.challenge_periods
       /\ fin.challenge_periods[batch_id].period_status = "Challenged"

\* C20: after submit_challenge succeeds for a batch, a challenge with
\* deadline = submission time + fraud_proof_window is active against it, and
\* the batch of every active challenge has the status Challenged.
C20_ChallengedWhileOpen ==
    /\ ChallengeOpenedWithDeadline
    /\ \A challenge_id \in DOMAIN rollup.active_challenges :
            ShowsChallenged(rollup.active_challenges[challenge_id].batch_id)


\* a batch with at least one transaction and a state root of 32 bytes
WellFormedBatch(batch) == Len(batch.transactions) > 0 /\ RootLen(batch.state_root) = 32

\* C21: submit_batch accepts a batch exactly when its transaction list is not
\* empty and its state root is 32 bytes long, and a rejected batch leaves the
\* rollup (canonical root, batch history, state snapshots, merkle roots and
\* recorded state transitions) as it was before the call.
C21_RejectedBatchChangesNothing ==
    [][(ret'.op = "submit_batch" /\ clock' = clock)
        => /\ (ret'.result = "ok") <=> WellFormedBatch(ret'.batch)
           /\ ret'.result # "ok" => rollup' = rollup]_vars

\* a batch with a short state root has been refused by a rollup that holds an
\* accepted batch and has advanced its root
C21_Witness ==
    /\ ret.op = "submit_batch"
    /\ ret.result = "Invalid state root length"
    /\ Len(ret.batch.transactions) > 0
    /\ rollup.batches # EmptyMap
    /\ rollup.current_state_root # ZeroRoot


(***************************************************************************)
(* Admission at capacity.  Submissions go on until one more transaction    *)
(* than the pool can hold has been admitted, so that the pool is offered   *)
(* a transaction while it is full; the senders hold the genesis balances   *)
(* of the funded engine, which keeps the batch task alive over the ticks.  *)
(***************************************************************************)
\* a transaction that admission takes and the GasValidator of the batch
\* processor refuses: its gas limit is not zero and below 21000
LowGasTx == Tx(0, "a1", "a2", "GCC", 1, 1, MinGasLimit - 1, FALSE, TRUE)

PoolTxs == {t \in EngineTxs : t.to_address = "a2"} \cup {LowGasTx}

SubmitToPool ==
    /\ Len(admitted) <= MaxPendingTransactions
    /\ \E t \in PoolTxs, approved \in BOOLEAN :
        LET tx == [t EXCEPT !.id = Len(admitted) + 1]
            res == submit_transaction(pool, tx, approved)
        IN  /\ pool' = res.pool
            /\ admitted' = IF res.result = "ok" THEN Append(admitted, tx) ELSE admitted
            /\ ret' = [op |-> "submit_transaction", tx |-> tx, approved |-> approved,
                       resubmission |-> FALSE, result |-> res.result]
    /\ UNCHANGED <<queue, batch_task, bp, rollup, fin, sm, clock, registered, zk>>

\* the admitted transactions a batch attempt took from the pool and its
\* validation stage left out
Excluded ==
    {tx \in Range(admitted) :
        tx.id \in DOMAIN pool.processing /\ ~validate_single_transaction(tx)}

\* the sender submits an excluded transaction again with the same nonce, as
\* it was or with the gas limit put right
Resubmit ==
    /\ \E excluded \in Excluded :
       \E tx \in {excluded, [excluded EXCEPT !.gas_limit = MinGasLimit]} :
        LET res == submit_transaction(pool, tx, TRUE)
        IN  /\ pool' = res.pool
            /\ ret' = [op |-> "submit_transaction", tx |-> tx, approved |-> TRUE,
                       resubmission |-> TRUE, result |-> res.result]
    /\ UNCHANGED <<queue, batch_task, bp, rollup, fin, sm, clock, admitted, registered, zk>>

NextPool ==
    \/ SubmitToPool
    \/ BatchTick
    \/ Resubmit

SpecPool == InitFunded /\ [][NextPool]_vars

\* the transactions waiting in the two lanes
Waiting(p) == Len(p.pending) + Len(p.priority_queue)

\* C22: the number of transactions waiting in the two lanes never exceeds
\* max_pending_transactions, and a pool that holds that many admits nothing:
\* every submission is rejected, with the pool-full error when it passed
\* validation and the policy gate.
C22_PoolBounded ==
    /\ [](Waiting(pool) <= MaxPendingTransactions /\ Waiting(pool) = pool.total_size)
    /\ [][(ret'.op = "submit_transaction" /\ Waiting(pool) >= MaxPendingTransactions)
            => /\ ret'.result # "ok"
               /\ (validate_transaction(ret'.tx) = "ok" /\ ret'.approved)
                    => ret'.result = "Transaction pool full"]_vars

\* a full pool has refused a well-formed, approved transaction whose nonce
\* is the next one of its sender
C22_Witness ==
    /\ ret.op = "submit_transaction"
    /\ ret.result = "Transaction pool full"
    /\ Waiting(pool) = MaxPendingTransactions
    /\ ret.tx.nonce = expected_nonce(pool, ret.tx)


\* the results with which submit_transaction refuses a transaction
AdmissionErrors ==
    {"Zero amount transaction", "Zero gas limit", "Missing transaction signature",
     "Transaction rejected by security", "Transaction pool full", "Invalid nonce"}

\* C23: a rejected submit_transaction (zero amount, zero gas limit, missing
\* signature, policy rejection, pool full or wrong nonce) leaves the pool as
\* it was: both lanes, the processing table, the nonce tracker and total_size.
C23_RejectionLeavesPool ==
    [][ret'.op = "submit_transaction"
        => /\ ret'.result \in AdmissionErrors \cup {"ok"}
           /\ ret'.result \in AdmissionErrors
                => /\ pool'.pending = pool.pending
                   /\ pool'.priority_queue = pool.priority_queue
                   /\ pool'.processing = pool.processing
                   /\ pool'.nonce_tracker = pool.nonce_tracker
                   /\ pool'.total_size = pool.total_size]_vars

\* a transaction with a nonce out of order has been refused by a pool that
\* holds transactions in a lane and in the processing table
C23_Witness ==
    /\ ret.op = "submit_transaction"
    /\ ret.result = "Invalid nonce"
    /\ Waiting(pool) > 0
    /\ pool.processing # EmptyMap
    /\ ret.tx.from_address \in DOMAIN pool.nonce_tracker


\* C24: a transaction that the validation stage excluded from a batch is not
\* blacklisted: when its sender submits it again with the same nonce, the
\* submission is admitted.
C24_ResubmissionAdmitted ==
    (ret.op = "submit_transaction" /\ ret.resubmission) => ret.result = "ok"


\* the transactions waiting in the pool, and the case of the claim: as many
\* as a batch takes, from distinct senders, each with nonce 1 and each one
\* that the validators pass
WaitingTxs(p) == Range(p.pending) \cup Range(p.priority_queue)

OnePerSender(p) ==
    /\ Waiting(p) = BatchSize
    /\ \A tx \in WaitingTxs(p) : tx.nonce = 1 /\ validate_single_transaction(tx)
    /\ \A x, y \in WaitingTxs(p) : x.from_address = y.from_address => x = y

AddCost(sum, tx) == sum + calculate_gas_cost(tx)

\* C25: when the pool holds batch_size transactions of distinct senders, each
\* with nonce 1, the next batch tick produces exactly one batch, which holds
\* all of them and whose gas_used is the sum of their computed costs.
C25_OneBatchOfAll ==
    [][(ret'.op = "process_pending_transactions" /\ pool' # pool /\ OnePerSender(pool))
        => /\ Len(bp'.produced) = Len(bp.produced) + 1
           /\ Range(bp'.produced[Len(bp'.produced)].transactions) = WaitingTxs(pool)
           /\ bp'.produced[Len(bp'.produced)].gas_used
                = FoldSeq(AddCost, 0, bp'.produced[Len(bp'.produced)].transactions)]_vars



(***************************************************************************)
(* The validation stage and the balance of the sender.                     *)
(***************************************************************************)
\* the transactions the last call of process_batch handed to execute_transactions
ReachedExecution(b) == Range(b.last_exec)

\* C26: a transaction whose sender holds less than the transfer amount is
\* rejected by the validation stage and never reaches the execution stage:
\* every transaction a batch tick hands to execution has a sender that holds
\* the amount in the state the tick starts from, and the tick leaves the size
\* of the pool at the number of waiting transactions.
C26_UnderfundedNeverExecuted ==
    [][(ret'.op = "process_pending_transactions" /\ ret'.result # "idle")
        => /\ \A tx \in ReachedExecution(bp') : sufficient_balance(tx, bp.state)
           /\ pool'.total_size = Waiting(pool')]_vars


(***************************************************************************)
(* The validation stage with its cache.  validate_transactions spawns one  *)
(* task per transaction; a task looks its (id, nonce) key up in the cache  *)
(* shared by all calls, returns the cached result while it has not         *)
(* expired, and otherwise runs the validators and stores what they say for *)
(* ValidationCacheTtl seconds.  The ids are the caller's strings and       *)
(* nothing keeps two transactions from carrying the same one.  The clock   *)
(* counts seconds here.  bp carries the cache, the tasks of the call in    *)
(* progress and the channel the results are sent on.                       *)
(***************************************************************************)
ValidationCacheTtl == 300

ValidationTx ==
    {Tx(id, "a1", "a2", "GCC", 1, 1, gas_limit, FALSE, TRUE) :
        id \in {1, 2},
        gas_limit \in {MinGasLimit - 1, MinGasLimit, MaxGasLimit, MaxGasLimit + 1}}
    \cup {Tx(id, "a1", "a2", "GCC", 1, 1, MinGasLimit, FALSE, FALSE) : id \in {1, 2}}

ValidationLists == {<<x>> : x \in ValidationTx} \cup {<<x, y>> : x, y \in ValidationTx}

cache_key(tx) == <<tx.id, tx.nonce>>

InitValidation ==
    /\ pool = PoolNew
    /\ queue = QueueNew
    /\ batch_task = "running"
    /\ bp = [cached_results |-> EmptyMap, transactions |-> <<>>, tasks |-> <<>>,
             channel |-> <<>>]
    /\ rollup = RollupNew
    /\ fin = FinalityNew
    /\ sm = StateManagerNew
    /\ clock = 0
    /\ ret = NoCall
    /\ admitted = <<>>
    /\ registered = {}
    /\ zk = ZKProofSystemNew

\* validate_transactions is called and spawns its tasks
SpawnValidation ==
    /\ bp.tasks = <<>>
    /\ \E txs \in ValidationLists :
        bp' = [bp EXCEPT !.transactions = txs,
                         !.tasks = [i \in 1..Len(txs) |-> [pc |-> "cache", valid |-> FALSE]],
                         !.channel = <<>>]
    /\ ret' = [op |-> "validate_transactions", result |-> "pending"]
    /\ UNCHANGED <<pool, queue, batch_task, rollup, fin, sm, clock, admitted, registered, zk>>

\* a task reads the cache: an entry that has not expired is its result
CheckCache(i) ==
    /\ i \in DOMAIN bp.tasks
    /\ bp.tasks[i].pc = "cache"
    /\ LET key == cache_key(bp.transactions[i])
       IN  IF key \in DOMAIN bp.cached_results /\ bp.cached_results[key].expires_at > clock
           THEN bp' = [bp EXCEPT !.tasks[i] =
                            [pc |-> "send", valid |-> bp.cached_results[key].valid]]
           ELSE bp' = [bp EXCEPT !.tasks[i].pc = "validators"]
    /\ UNCHANGED <<pool, queue, batch_task, rollup, fin, sm, clock, ret, admitted, registered, zk>>

\* a task runs the validators and stores the combined result
RunValidators(i) ==
    /\ i \in DOMAIN bp.tasks
    /\ bp.tasks[i].pc = "validators"
    /\ LET valid == validate_single_transaction(bp.transactions[i])
       IN  bp' = [bp EXCEPT
                    !.tasks[i] = [pc |-> "send", valid |-> valid],
                    !.cached_results =
                        Put(@, cache_key(bp.transactions[i]),
                            [valid |-> valid, expires_at |-> clock + ValidationCacheTtl])]
    /\ UNCHANGED <<pool, queue, batch_task, rollup, fin, sm, clock, ret, admitted, registered, zk>>

\* a task sends its transaction and its result on the channel
SendResult(i) ==
    /\ i \in DOMAIN bp.tasks
    /\ bp.tasks[i].pc = "send"
    /\ bp' = [bp EXCEPT !.tasks[i].pc = "done",
                        !.channel = Append(@, [transaction |-> bp.transactions[i],
                                               valid |-> bp.tasks[i].valid])]
    /\ UNCHANGED <<pool, queue, batch_task, rollup, fin, sm, clock, ret, admitted, registered, zk>>

IsValidResult(m) == m.valid

\* the channel is closed: validate_transactions returns what was sent as valid
CollectResults ==
    /\ bp.tasks # <<>>
    /\ \A i \in DOMAIN bp.tasks : bp.tasks[i].pc = "done"
    /\ LET received == SelectSeq(bp.channel, IsValidResult)
       IN  ret' = [op |-> "validate_transactions", result |-> "ok",
                   transactions |-> bp.transactions,
                   validated |-> [k \in 1..Len(received) |-> received[k].transaction]]
    /\ bp' = [bp EXCEPT !.transactions = <<>>, !.tasks = <<>>, !.channel = <<>>]
    /\ UNCHANGED <<pool, queue, batch_task, rollup, fin, sm, clock, admitted, registered, zk>>

\* the lifetime of a cache entry passes
TtlPasses ==
    /\ clock < MaxClock * ValidationCacheTtl
    /\ clock' = clock + ValidationCacheTtl
    /\ UNCHANGED <<pool, queue, batch_task, bp, rollup, fin, sm, ret, admitted, registered, zk>>

NextValidation ==
    \/ SpawnValidation
    \/ \E i \in 1..2 : CheckCache(i)
    \/ \E i \in 1..2 : RunValidators(i)
    \/ \E i \in 1..2 : SendResult(i)
    \/ CollectResults
    \/ TtlPasses

SpecValidation == InitValidation /\ [][NextValidation]_vars

PassesEveryValidator(tx) ==
    tx.signed /\ tx.gas_limit >= 21000 /\ tx.gas_limit <= 15000000

\* C27: the validation stage lets through exactly the transactions that pass
\* every validator: every transaction validate_transactions returns is signed
\* and has a gas limit within 21,000 to 15,000,000 inclusive, and every input
\* transaction that is signed and has a gas limit in that range is returned.
C27_ExactlyTheValid ==
    (ret.op = "validate_transactions" /\ ret.result = "ok")
        => /\ \A tx \in Range(ret.validated) : PassesEveryValidator(tx)
           /\ \A tx \in Range(ret.transactions) :
                PassesEveryValidator(tx) => tx \in Range(ret.validated)


(***************************************************************************)
(* The gas a batch accounts for.                                           *)
(***************************************************************************)
\* the cost of a committed transaction as the schedule states it
ScheduledCost(tx) ==
    Min(21000 + tx.data_len * 16 + (IF tx.amount > 0 THEN 2300 ELSE 0), tx.gas_limit)

AddScheduledCost(sum, tx) == sum + ScheduledCost(tx)

\* C28: the gas cost of a committed transaction is
\* min(21000 + data_len * 16 + (2300 for a non-zero amount), gas_limit), and
\* the gas_used of a batch is the sum of these costs over exactly the
\* committed transactions: a transaction that fails execution adds nothing.
C28_GasUsedIsSumOfCosts ==
    ret.op = "execute_transactions"
        => /\ ret.gas_used = FoldSeq(AddScheduledCost, 0, ret.executed)
           /\ Range(ret.executed) \subseteq Range(ret.validated)

\* a batch of two validated transactions of which one fails execution and the
\* other carries data and is charged its gas limit
C28_Witness ==
    /\ ret.op = "execute_transactions"
    /\ Len(ret.validated) = 2
    /\ Len(ret.executed) = 1
    /\ ret.executed[1].data_len = 1
    /\ ret.executed[1].amount > 0
    /\ ret.gas_used = ret.executed[1].gas_limit
    /\ ret.gas_used < 21000 + 16 + 2300


(***************************************************************************)
(* The retained snapshots and the eviction of create_snapshot.             *)
(***************************************************************************)
Retained(m) == DOMAIN m.snapshots

LowestBlock(blocks) == CHOOSE b \in blocks : \A other \in blocks : b <= other

\* C29: the number of retained snapshots never exceeds the configured cap,
\* and a create_snapshot that pushes the count over the cap evicts the oldest
\* snapshot, the one with the lowest block number among those retained
\* before, never the snapshot just created.
C29_EvictsOldestNotNewest ==
    /\ [](Cardinality(Retained(sm)) <= MaxSnapshots)
    /\ [][(ret'.op = "create_snapshot" /\ ret'.result = "ok")
            => /\ ret'.snapshot.block_number \in Retained(sm')
               /\ (Cardinality(Retained(sm) \cup {ret'.snapshot.block_number}) > MaxSnapshots)
                    => Retained(sm') = (Retained(sm) \cup {ret'.snapshot.block_number})
                                            \ {LowestBlock(Retained(sm))}]_vars


(***************************************************************************)
(* What track_l1_submission leaves behind.                                 *)
(***************************************************************************)
TrackedAsPending(f, batch_id, submitted_at) ==
    /\ batch_id \in DOMAIN f.pending_finality
    /\ f.pending_finality[batch_id].l1_confirmations = 0
    /\ f.pending_finality[batch_id].challenge_period_end = submitted_at + ChallengePeriod

\* C30: after track_l1_submission(batch_id, tx_hash, submitted_at) returns Ok
\* the batch is tracked as pending finality with 0 confirmations and a
\* challenge period that ends at submitted_at + challenge_period.
C30_TrackedAfterSubmission ==
    (ret.op = "track_l1_submission" /\ ret.result = "ok")
        => TrackedAsPending(fin, ret.batch_id, ret.submitted_at)


(***************************************************************************)
(* The ZKProofSystem as a state machine: generate_batch_proof and          *)
(* verify_proof on batches of two ids and two state roots.  A generation   *)
(* sleeps ProofGenerationTime milliseconds, and a day can pass, after      *)
(* which the cached proofs have expired.                                   *)
(***************************************************************************)
ZkBatches ==
    {[batch_id |-> batch_id, transactions |-> <<Tx(1, "a1", "a2", "GCC", 1, 1, MinGasLimit, FALSE, TRUE)>>,
      state_root |-> state_root, previous_state_root |-> ZeroRoot, gas_used |-> MinGasLimit] :
        batch_id \in {1, 2}, state_root \in {Sha256(<<1>>), Sha256(<<2>>)}}

GenerateBatchProof ==
    /\ \E batch \in ZkBatches :
        LET res == generate_batch_proof(zk, batch, clock)
        IN  /\ zk' = res.zk
            /\ clock' = res.now
            /\ ret' = [op |-> "generate_batch_proof", batch |-> batch, proof |-> res.proof,
                       result |-> "ok"]
    /\ UNCHANGED <<pool, queue, batch_task, bp, rollup, fin, sm, admitted, registered>>

\* verify_proof of a proof generate_batch_proof has returned
VerifyProof ==
    /\ \E proof \in Range(zk.cached_proofs) :
        LET res == verify_proof(zk, proof)
        IN  /\ zk' = res.zk
            /\ ret' = [op |-> "verify_proof", proof |-> proof, result |-> res.result,
                       valid |-> res.valid]
    /\ UNCHANGED <<pool, queue, batch_task, bp, rollup, fin, sm, clock, admitted, registered>>

\* more than the lifetime of a cached proof passes
ProofsExpire ==
    /\ clock < MaxClock * ProofLifetime
    /\ clock' = clock + ProofLifetime + 1
    /\ UNCHANGED <<pool, queue, batch_task, bp, rollup, fin, sm, ret, admitted, registered, zk>>

NextZk == GenerateBatchProof \/ VerifyProof \/ ProofsExpire

SpecZk == Init /\ [][NextZk]_vars

\* C31: verify_proof applied to the proof generate_batch_proof returned
\* returns true, and a second generate_batch_proof for the same batch id and
\* state root returns the cached proof, with the same proof id, instead of
\* generating a new one.
C31_GeneratedProofVerifies ==
    [][/\ ret'.op = "verify_proof" => (ret'.result = "ok" /\ ret'.valid)
       /\ (/\ ret'.op = "generate_batch_proof"
           /\ compute_batch_cache_key(ret'.batch) \in DOMAIN zk.cached_proofs)
            => ret'.proof.proof_id
                    = zk.cached_proofs[compute_batch_cache_key(ret'.batch)].proof_id]_vars


(***************************************************************************)
(* is_healthy of the BatchProcessor and of the FinalityEngine.  The two    *)
(* success rates are set when the processor is built and no code writes    *)
(* them afterwards (update_metrics leaves them alone); they are kept in    *)
(* tenths here.  The current block of the L1 monitor is the field          *)
(* current_block of fin.                                                   *)
(***************************************************************************)
ProcessingMetricsNew == [validation_success_rate |-> 0, execution_success_rate |-> 0]

batch_processor_is_healthy(b) ==
    /\ ProcessingMetricsNew.validation_success_rate > 5
    /\ ProcessingMetricsNew.execution_success_rate > 8
    /\ RootLen(b.state.state_root) = 32

finality_engine_is_healthy(f) ==
    /\ f.current_block > 0
    /\ Cardinality(DOMAIN f.pending_finality) < 1000
    /\ Cardinality(DOMAIN f.active_challenges) < 100

\* C32: immediately after construction with the default configuration, before
\* any operation has run, a new BatchProcessor and a new FinalityEngine
\* report is_healthy() = true.
C32_HealthyWhenNew ==
    (ret = NoCall /\ bp = BatchProcessorNew /\ fin = FinalityNew)
        => (batch_processor_is_healthy(bp) /\ finality_engine_is_healthy(fin))


(***************************************************************************)
(* get_settlement_status and the cleanup task.  The cleanup loop is        *)
(* modelled as scheduled, like the three ticks.  An hour can pass, after   *)
(* which the entries of the processing table have expired.                 *)
(***************************************************************************)
ProcessingLifetime == 3600000

stage_status(stage) ==
    IF stage \in {"Validation", "Batching"} THEN "Processing"
    ELSE IF stage = "ZKProofGeneration" THEN "BatchedForSettlement"
    ELSE IF stage = "L1Settlement" THEN "SubmittedToL1"
    ELSE "ChallengePhase"

HoldsTransaction(batch, transaction_id) ==
    \E i \in DOMAIN batch.transactions : batch.transactions[i].id = transaction_id

\* get_settlement_status: the results the call can return at time now.  The
\* submitted batches are scanned in the iteration order of a HashMap and the
\* first one holding the transaction decides, so there is one result for
\* each submitted batch that holds it.
get_settlement_status(p, q, transaction_id, now) ==
    IF transaction_id \in DOMAIN p.processing
    THEN {stage_status(p.processing[transaction_id].stage)}
    ELSE IF \/ \E i \in DOMAIN p.pending : p.pending[i].id = transaction_id
            \/ \E i \in DOMAIN p.priority_queue : p.priority_queue[i].id = transaction_id
    THEN {"Pending"}
    ELSE IF \E b \in DOMAIN q.finalized_batches :
                HoldsTransaction(q.finalized_batches[b].batch, transaction_id)
    THEN {"Finalized"}
    ELSE IF \E b \in DOMAIN q.submitted_batches :
                HoldsTransaction(q.submitted_batches[b].batch, transaction_id)
    THEN {IF now < q.submitted_batches[b].challenge_period_end
          THEN "ChallengePhase" ELSE "SubmittedToL1" :
            b \in {x \in DOMAIN q.submitted_batches :
                    HoldsTransaction(q.submitted_batches[x].batch, transaction_id)}}
    ELSE IF \E i \in DOMAIN q.pending_batches :
                HoldsTransaction(q.pending_batches[i], transaction_id)
    THEN {"BatchedForSettlement"}
    ELSE {"Transaction not found"}

\* cleanup_expired_data keeps the processing entries younger than an hour
cleanup_expired_data(p, now) ==
    [p EXCEPT !.processing =
        [id \in {x \in DOMAIN @ : now - @[x].started_at < ProcessingLifetime} |-> @[id]]]

GetSettlementStatus ==
    /\ \E transaction_id \in 1..MaxTx :
       \E status \in get_settlement_status(pool, queue, transaction_id, clock) :
            ret' = [op |-> "get_settlement_status", transaction_id |-> transaction_id,
                    result |-> status]
    /\ UNCHANGED <<pool, queue, batch_task, bp, rollup, fin, sm, clock, admitted, registered, zk>>

CleanupTick ==
    /\ pool' = cleanup_expired_data(pool, clock)
    /\ ret' = [op |-> "cleanup_expired_data", result |-> "ok"]
    /\ UNCHANGED <<queue, batch_task, bp, rollup, fin, sm, clock, admitted, registered, zk>>

HourPasses ==
    /\ clock < MaxClock * ProcessingLifetime
    /\ clock' = clock + ProcessingLifetime
    /\ UNCHANGED <<pool, queue, batch_task, bp, rollup, fin, sm, ret, admitted, registered, zk>>

NextStatus ==
    \/ HourPasses
    \/ SubmitTransaction
    \/ BatchTick
    \/ CleanupTick
    \/ GetSettlementStatus

SpecStatus == Init /\ [][NextStatus]_vars

\* the place of a status in the order of the life of a transaction; a
\* transaction that is not found has no place yet
StatusRank(status) ==
    CASE status = "Transaction not found" -> 0
      [] status = "Pending" -> 1
      [] status = "Processing" -> 2
      [] status = "BatchedForSettlement" -> 3
      [] status = "SubmittedToL1" -> 4
      [] status = "ChallengePhase" -> 5
      [] status = "Finalized" -> 6

\* C33: for every transaction, successive get_settlement_status calls follow
\* the order Pending, Processing, BatchedForSettlement, SubmittedToL1,
\* ChallengePhase, Finalized: no step of the engine takes the status a call
\* can return to one that comes earlier in that order, and a transaction once
\* known is never reported as not found.
C33_StatusNeverGoesBack ==
    [][\A transaction_id \in 1..MaxTx :
        \A before \in get_settlement_status(pool, queue, transaction_id, clock) :
        \A after \in get_settlement_status(pool', queue', transaction_id, clock') :
            StatusRank(after) >= StatusRank(before)]_vars


(***************************************************************************)
(* Conservation of value by the execution stage.                           *)
(***************************************************************************)
\* the sum of the balances of a token over all accounts
TotalBalance(balances, token) ==
    LET AddHeld(sum, address) == sum + Held(balances, address, token)
    IN  FoldSeq(AddHeld, 0, SetToSeq(Addresses))

C35_TotalSizeCountsLanes ==
    /\ [](pool.total_size = Len(pool.pending) + Len(pool.priority_queue))
    /\ [][/\ (ret'.op = "submit_transaction" /\ ret'.result = "ok")
                => pool'.total_size = pool.total_size + 1
          /\ ret'.op = "process_pending_transactions"
                => pool'.total_size
                        = pool.total_size - Len(batch_transactions(pool))]_vars

\* a batch tick has drained a full batch and left a transaction waiting
C35_Witness ==
    /\ ret.op = "process_pending_transactions"
    /\ ret.result = "ok"
    /\ pool.processing # EmptyMap
    /\ pool.total_size > 0
    /\ pool.total_size = Len(pool.pending) + Len(pool.priority_queue)


(***************************************************************************)
(* Concurrent process_challenge calls.  The call reads the challenge under *)
(* the tracker's read lock, releases it, verifies and applies the outcome, *)
(* and takes the write lock to remove the challenge and push the record:   *)
(* three steps per caller, interleaved freely.  The callers' positions are *)
(* kept in the field callers next to the rollup's own fields.              *)
(***************************************************************************)
NumCallers == 2

Callers == 1..NumCallers

CallerNew == [pc |-> "idle", challenge |-> [challenge_id |-> 0], outcome |-> "none",
              result |-> "none"]

InitRace ==
    /\ pool = PoolNew
    /\ queue = QueueNew
    /\ batch_task = "running"
    /\ bp = BatchProcessorNew
    /\ \E history \in BatchHistories :
            rollup = [f \in DOMAIN RollupNew \cup {"callers"} |->
                        IF f = "callers" THEN [c \in Callers |-> CallerNew]
                        ELSE IF f = "batches"
                        THEN [id \in DOMAIN history |-> HistoricalBatchOf(id, history[id])]
                        ELSE RollupNew[f]]
    /\ fin = FinalityNew
    /\ sm = StateManagerNew
    /\ clock = 0
    /\ ret = NoCall
    /\ admitted = <<>>
    /\ registered = {}
    /\ zk = ZKProofSystemNew

\* the first block of process_challenge and verify_challenge
ReadChallenge(c) ==
    /\ rollup.callers[c].pc = "idle"
    /\ \E challenge_id \in 1..MaxChallenges :
        IF challenge_id \notin DOMAIN rollup.active_challenges
        THEN /\ rollup' = [rollup EXCEPT !.callers[c].pc = "done",
                                         !.callers[c].challenge.challenge_id = challenge_id,
                                         !.callers[c].result = "Challenge not found"]
             /\ ret' = [op |-> "process_challenge", caller |-> c,
                        challenge_id |-> challenge_id, result |-> "Challenge not found"]
        ELSE /\ rollup' = [rollup EXCEPT
                            !.callers[c].pc = "verified",
                            !.callers[c].challenge = rollup.active_challenges[challenge_id],
                            !.callers[c].outcome =
                                verify_challenge(rollup.active_challenges[challenge_id])]
             /\ ret' = NoCall
    /\ UNCHANGED <<pool, queue, batch_task, bp, fin, sm, clock, admitted, registered, zk>>

\* the match on the outcome
ApplyOutcome(c) ==
    /\ rollup.callers[c].pc = "verified"
    /\ LET me == rollup.callers[c]
           applied ==
                IF me.outcome = "ChallengeSuccessful"
                THEN handle_successful_challenge(rollup, me.challenge)
                ELSE IF me.outcome = "ChallengeFailed"
                THEN handle_failed_challenge(rollup, me.challenge)
                ELSE [rollup |-> rollup, result |-> "ok"]
       IN  IF applied.result # "ok"
           THEN /\ rollup' = [applied.rollup EXCEPT !.callers[c].pc = "done",
                                                    !.callers[c].result = applied.result]
                /\ ret' = [op |-> "process_challenge", caller |-> c,
                           challenge_id |-> me.challenge.challenge_id,
                           result |-> applied.result]
           ELSE /\ rollup' = [applied.rollup EXCEPT !.callers[c].pc = "applied"]
                /\ ret' = NoCall
    /\ UNCHANGED <<pool, queue, batch_task, bp, fin, sm, clock, admitted, registered, zk>>

\* the last block of process_challenge
RecordInHistory(c) ==
    /\ rollup.callers[c].pc = "applied"
    /\ LET me == rollup.callers[c]
       IN  /\ rollup' = [rollup EXCEPT
                            !.active_challenges = Remove(@, me.challenge.challenge_id),
                            !.challenge_history =
                                Append(@, [challenge_id |-> me.challenge.challenge_id,
                                           batch_id |-> me.challenge.batch_id,
                                           outcome |-> me.outcome]),
                            !.callers[c].pc = "done",
                            !.callers[c].result = me.outcome]
           /\ ret' = [op |-> "process_challenge", caller |-> c,
                      challenge_id |-> me.challenge.challenge_id, result |-> me.outcome]
    /\ UNCHANGED <<pool, queue, batch_task, bp, fin, sm, clock, admitted, registered, zk>>

NextRace ==
    \/ SubmitChallenge
    \/ \E c \in Callers :
        \/ ReadChallenge(c)
        \/ ApplyOutcome(c)
        \/ RecordInHistory(c)

SpecRace == InitRace /\ [][NextRace]_vars

\* the callers whose call on the challenge returned an outcome
Resolvers(r, challenge_id) ==
    {c \in Callers : /\ r.callers[c].pc = "done"
                     /\ r.callers[c].challenge.challenge_id = challenge_id
                     /\ r.callers[c].result \in {"ChallengeSuccessful", "ChallengeFailed",
                                                 "NoContest"}}

\* the records challenge_history holds for the challenge
RecordsOf(r, challenge_id) ==
    {i \in 1..Len(r.challenge_history) :
        r.challenge_history[i].challenge_id = challenge_id}

\* C36: each challenge is resolved at most once: whatever the interleaving of
\* concurrent process_challenge calls on one challenge id, at most one call
\* returns an outcome and challenge_history holds at most one record of the
\* challenge, and once every call has returned after a call found the
\* challenge, exactly one has returned an outcome and the others have
\* failed with challenge-not-found.
C36_ResolvedAtMostOnce ==
    \A challenge_id \in 1..MaxChallenges :
        /\ Cardinality(Resolvers(rollup, challenge_id)) <= 1
        /\ Cardinality(RecordsOf(rollup, challenge_id)) <= 1
        /\ (/\ \A c \in Callers : /\ rollup.callers[c].pc = "done"
                                  /\ rollup.callers[c].challenge.challenge_id = challenge_id
            /\ RecordsOf(rollup, challenge_id) # {})
                => /\ Cardinality(Resolvers(rollup, challenge_id)) = 1
                   /\ \A c \in Callers \ Resolvers(rollup, challenge_id) :
                        rollup.callers[c].result = "Challenge not found"


(***************************************************************************)
(* The L1-submission tick on a queue that holds batches.  The engine never *)
(* pushes to pending_batches (see enqueue_result), so the batches waiting  *)
(* in the queue are supplied: batches as assemble_batch builds them, one    *)
(* that submit_batch accepts, one without transactions and one whose state *)
(* root is not 32 bytes long.                                              *)
(***************************************************************************)
QueuedBatch(id, shape) ==
    assemble_batch(IF shape = "empty" THEN <<>>
                   ELSE <<Tx(1, "a1", "a2", "GCC", 0, 1, MinGasLimit, FALSE, TRUE)>>,
                   IF shape = "short root" THEN ShortRoot ELSE UpdateRoot(id + 1),
                   MinGasLimit, id)

QueuedBatches ==
    {QueuedBatch(id, shape) : id \in 0..MaxClock,
                              shape \in {"accepted", "empty", "short root"}}

PendingQueues ==
    {<<>>} \cup {<<b>> : b \in QueuedBatches}
           \cup {<<b, c>> : b \in QueuedBatches, c \in QueuedBatches}

InitQueue ==
    /\ pool = PoolNew
    /\ \E pending \in PendingQueues :
            /\ \A i, j \in DOMAIN pending :
                    pending[i].batch_id = pending[j].batch_id => i = j
            /\ queue = [QueueNew EXCEPT !.pending_batches = pending]
    /\ batch_task = "running"
    /\ bp = BatchProcessorNew
    /\ rollup = RollupNew
    /\ fin = FinalityNew
    /\ sm = StateManagerNew
    /\ clock = 0
    /\ ret = NoCall
    /\ admitted = <<>>
    /\ registered = {}
    /\ zk = ZKProofSystemNew

NextQueue ==
    \/ AdvanceClock
    \/ SettlementTick
    \/ FinalityTick

SpecQueue == InitQueue /\ [][NextQueue]_vars

\* the batches one tick takes from the queue
TakenBySettlementTick(q) == Range(Take(q.pending_batches, MaxSettleAtOnce))

Assembled == Range(bp.produced)

\* C38: batch ids are unique: no two distinct batches assembled by the
\* BatchProcessor carry the same batch_id, also when the clock did not
\* advance between them, so an accepted submit_batch of an assembled batch
\* never replaces the history record or the transition of a different
\* assembled batch.
C38_BatchIdsUnique ==
    /\ [](\A x, y \in Assembled : x.batch_id = y.batch_id => x = y)
    /\ [][(/\ ret'.op = "submit_batch"
           /\ ret'.result = "ok"
           /\ ret'.batch \in Assembled
           /\ ret'.batch.batch_id \in DOMAIN rollup.batches
           /\ rollup.batches[ret'.batch.batch_id].batch \in Assembled)
            => /\ rollup.batches[ret'.batch.batch_id].batch = ret'.batch
               /\ rollup'.state_transitions[ret'.batch.batch_id].transactions
                    = rollup.state_transitions[ret'.batch.batch_id].transactions]_vars


(***************************************************************************)
(* Completion of process_batch.                                            *)
(***************************************************************************)
\* C39: process_batch always returns a value: for every list the batch tick
\* hands it, also one of which no transaction survives validation and
\* execution, the call completes with a batch or an error result, and the
\* batch task that made the call keeps running.
C39_ProcessBatchAlwaysReturns ==
    /\ batch_task = "running"
    /\ ret.op = "process_pending_transactions" => ret.result \in {"idle", "ok", "error"}


(***************************************************************************)
(* The account cache under concurrency.  apply_state_update writes the     *)
(* state under its write lock, releases it, and then pushes the history    *)
(* and invalidates the cache; restore_from_snapshot replaces the state     *)
(* and then clears the cache; get_account looks into the cache and, on a   *)
(* miss, reads the state and fills the cache while it holds the state's    *)
(* read lock.  One writer and one reader run these steps interleaved;      *)
(* their positions are kept in the field calls next to the manager's own   *)
(* fields.                                                                 *)
(***************************************************************************)
CallsNew ==
    [writer |-> [pc |-> "idle", update |-> [updates |-> <<>>]],
     reader |-> [pc |-> "idle", address |-> "none"]]

CacheChanges ==
    {StateChange("AccountCreation", a, NoKey, AccountValue(v)) :
        a \in Addresses, v \in {"account", "account with code"}}
    \cup {StateChange("AccountDeletion", "a1", NoKey, [type |-> "None", v |-> 0])}

InitCache ==
    /\ pool = PoolNew
    /\ queue = QueueNew
    /\ batch_task = "running"
    /\ bp = BatchProcessorNew
    /\ rollup = RollupNew
    /\ fin = FinalityNew
    /\ sm = [f \in DOMAIN StateManagerNew \cup {"calls"} |->
                IF f = "calls" THEN CallsNew ELSE StateManagerNew[f]]
    /\ clock = 0
    /\ ret = NoCall
    /\ admitted = <<>>
    /\ registered = {}
    /\ zk = ZKProofSystemNew

\* apply_state_update up to drop(state)
ApplyToState ==
    /\ sm.calls.writer.pc = "idle"
    /\ sm.state.transaction_count < MaxUpdates
    /\ \E change \in CacheChanges :
            LET update ==
                    [block_number |-> sm.state.block_number + 1, updates |-> <<change>>,
                     gas_used |-> 1, timestamp |-> clock,
                     state_root_before |-> sm.state.state_root,
                     state_root_after |-> UpdateRoot(sm.state.transaction_count + 1)]
            IN  /\ sm' = [sm EXCEPT
                            !.state =
                                [apply_changes(@, update.updates) EXCEPT
                                    !.block_number = update.block_number,
                                    !.timestamp = update.timestamp,
                                    !.transaction_count = @ + 1,
                                    !.gas_used = @ + update.gas_used,
                                    !.state_root = update.state_root_after],
                            !.calls.writer = [pc |-> "invalidate", update |-> update]]
                /\ ret' = [op |-> "apply_state_update", update |-> update,
                           result |-> "pending"]
    /\ UNCHANGED <<pool, queue, batch_task, bp, rollup, fin, clock, admitted, registered, zk>>

\* apply_state_update from the history push to its return
InvalidateCacheForUpdate ==
    /\ sm.calls.writer.pc = "invalidate"
    /\ sm' = [invalidate_cache_for_update(
                    [sm EXCEPT !.updates = push_history(@, sm.calls.writer.update)],
                    sm.calls.writer.update.updates)
                EXCEPT !.calls.writer = CallsNew.writer]
    /\ ret' = [op |-> "apply_state_update", update |-> sm.calls.writer.update,
               result |-> "ok"]
    /\ UNCHANGED <<pool, queue, batch_task, bp, rollup, fin, clock, admitted, registered, zk>>

\* restore_from_snapshot up to the replacement of the state
ReplaceState ==
    /\ sm.calls.writer.pc = "idle"
    /\ \E block \in DOMAIN sm.snapshots :
            /\ sm' = [sm EXCEPT
                        !.state = from_slice(decompress_data(
                                        sm.snapshots[block].compressed_state)),
                        !.calls.writer.pc = "clear"]
            /\ ret' = [op |-> "restore_from_snapshot", block_number |-> block,
                       result |-> "pending"]
    /\ UNCHANGED <<pool, queue, batch_task, bp, rollup, fin, clock, admitted, registered, zk>>

\* restore_from_snapshot from clear_cache to its return
ClearCache ==
    /\ sm.calls.writer.pc = "clear"
    /\ sm' = [clear_cache(sm) EXCEPT !.calls.writer = CallsNew.writer]
    /\ ret' = [op |-> "restore_from_snapshot", result |-> "ok"]
    /\ UNCHANGED <<pool, queue, batch_task, bp, rollup, fin, clock, admitted, registered, zk>>

\* create_snapshot between two calls of the writer
SnapshotBetweenWrites ==
    /\ sm.calls.writer.pc = "idle"
    /\ create_snapshot(sm, clock).result = "ok"
    /\ sm' = create_snapshot(sm, clock).sm
    /\ ret' = [op |-> "create_snapshot", result |-> "ok"]
    /\ UNCHANGED <<pool, queue, batch_task, bp, rollup, fin, clock, admitted, registered, zk>>

\* the first block of get_account
LookupCache ==
    /\ sm.calls.reader.pc = "idle"
    /\ \E address \in Addresses :
        IF address \in DOMAIN sm.cached_accounts
        THEN /\ ret' = [op |-> "get_account", address |-> address,
                        result |-> sm.cached_accounts[address]]
             /\ UNCHANGED sm
        ELSE /\ sm' = [sm EXCEPT !.calls.reader = [pc |-> "miss", address |-> address]]
             /\ ret' = [op |-> "get_account", address |-> address, result |-> "pending"]
    /\ UNCHANGED <<pool, queue, batch_task, bp, rollup, fin, clock, admitted, registered, zk>>

\* get_account after a miss: the read of the state and cache_account under the
\* state's read lock
ReadThrough ==
    /\ sm.calls.reader.pc = "miss"
    /\ LET address == sm.calls.reader.address
       IN  IF address \in DOMAIN sm.state.accounts
           THEN /\ sm' = [cache_account(sm, address, sm.state.accounts[address])
                            EXCEPT !.calls.reader = CallsNew.reader]
                /\ ret' = [op |-> "get_account", address |-> address,
                           result |-> sm.state.accounts[address]]
           ELSE /\ sm' = [sm EXCEPT !.calls.reader = CallsNew.reader]
                /\ ret' = [op |-> "get_account", address |-> address, result |-> "None"]
    /\ UNCHANGED <<pool, queue, batch_task, bp, rollup, fin, clock, admitted, registered, zk>>

NextCache ==
    \/ ApplyToState
    \/ InvalidateCacheForUpdate
    \/ SnapshotBetweenWrites
    \/ ReplaceState
    \/ ClearCache
    \/ LookupCache
    \/ ReadThrough

SpecCache == InitCache /\ [][NextCache]_vars

\* the account the canonical state holds for the address
Canonical(m, address) ==
    IF address \in DOMAIN m.state.accounts THEN m.state.accounts[address] ELSE "None"

\* the addresses an update touches
Touched(update) == {update.updates[i].address : i \in DOMAIN update.updates}

\* C40: the account cache is coherent under concurrency: whatever the
\* interleaving of get_account with apply_state_update and
\* restore_from_snapshot, the account get_account returns is the one the
\* canonical state holds at the moment of the read, and an applied update
\* removes from the cache only the entries of the addresses it touched.
C40_CacheCoherent ==
    [][/\ (ret'.op = "get_account" /\ ret'.result # "pending")
            => ret'.result = Canonical(sm, ret'.address)
       /\ (ret'.op = "apply_state_update" /\ ret'.result = "ok")
            => \A address \in DOMAIN sm.cached_accounts \ Touched(ret'.update) :
                /\ address \in DOMAIN sm'.cached_accounts
                /\ sm'.cached_accounts[address] = sm.cached_accounts[address]]_vars

====
